---- MODULE Spec2Model ----
(***************************************************************************)
(* lazylog: a model of the ingestion pipeline (provider thread, ring       *)
(* buffer hand-off, foreground update_logs / cleanup) and of the           *)
(* FilterEngine the viewer runs over the accumulated log list.             *)
(*                                                                         *)
(* The specifications share the variables:                                 *)
(*   Spec / FairSpec  the two threads of lazylog-framework around the ring *)
(*                    buffer (provider/mod.rs, app/mod.rs);                *)
(*   SpecFilter       calls of FilterEngine::filter, filter_new_logs and   *)
(*                    reset over an append-only log list (filter.rs);      *)
(*   SpecReassembler  process_delta with and without special events over   *)
(*                    deltas of a monitored log file;                      *)
(*   SpecDecoders     LogParser::parse of the Android and iOS decoders and *)
(*                    process_delta over raw device logs;                  *)
(*   SpecEngine       the FilterEngine under any sequence of calls of its  *)
(*                    methods;                                             *)
(*   SpecBurst        the viewer around one arrival batch of about a       *)
(*                    thousand entries;                                    *)
(*   SpecViewer       the viewer key by key, with its selection            *)
(*                    (app/events.rs, app/selection.rs);                   *)
(*   SpecLevelKeys    the viewer built with parsers of different maxima;   *)
(*   SpecDetailLevel  increment_detail_level / decrement_detail_level on   *)
(*                    all u8 arguments;                                    *)
(*   SpecLines        content_into_lines (content_line_maker.rs);          *)
(*   SpecSyslog       decode_syslog (lazylog-ios/src/decoder.rs);          *)
(*   SpecTail         DyehLogProvider::poll_logs over changing log files;  *)
(*   SpecDevice /     AndroidLogProvider with its reader thread and the    *)
(*   FairSpecDevice   adb child.                                           *)
(* Text is a sequence of characters; indices into raw_logs are 0-based as  *)
(* in the source, so entry i is raw_logs[i + 1].                           *)
(***************************************************************************)
EXTENDS Integers, Sequences, FiniteSets, TLC

VARIABLES
    \* ---- provider thread (spawn_provider_thread's closure) ----
    pc,            \* position of the provider thread in its closure
    should_stop,   \* the shared AtomicBool stop flag
    ring,          \* content of the HeapRb ring buffer, oldest first
    raw_batch,     \* rest of the Vec<String> the current poll_logs() returned
    pending,       \* <<item>> parse() returned and try_push has not yet seen
    src_left,      \* raw strings the Source can still deliver
    next_id,       \* ids handed out to LogItems so far
    \* ---- foreground (App) ----
    fg,            \* position of the foreground thread
    new_logs,      \* update_logs' local Vec of popped items
    raw_logs,      \* App.raw_logs, the accumulated log list
    displaying_logs, \* App.displaying_logs, indices into raw_logs
    filter_input,  \* App.filter_input, the typed filter with its leading "/"
    filter_focused, \* App.filter_focused, the filter line takes the keys
    selected,      \* displaying_logs.state.selected(): <<>> or <<position>>
    selected_log_uuid, \* App.selected_log_uuid: <<>> or <<id>>
    parser_max_detail_level, \* what App.parser.max_detail_level() returns
    dyeh,          \* a DyehLogProvider and the log files it tails
    android,       \* an AndroidLogProvider, its reader thread and its child
    \* ---- FilterEngine ----
    previous_query,
    previous_results,
    formatter_set, \* FilterEngine.formatter is Some(..)
    detail_level,
    \* ---- observation (history) variables ----
    produced,      \* every LogItem parse() returned, in order
    dropped,       \* every LogItem try_push refused
    calls,         \* how often start / poll_logs / stop were called, and how
                   \* often poll_logs with the stop flag set (saturating)
    last_poll,     \* outcome of the latest poll_logs(): "none" | "ok" | "err"
    start_result,  \* outcome of provider.start(): "none" | "ok" | "err"
    stop_result,   \* outcome of provider.stop(): "none" | "ok" | "err"
    ever_running,  \* the thread has passed the start check
    hist,          \* the latest FilterEngine calls, newest first
    \* ---- decoders and the structured reassembler ----
    chunks,        \* the pieces of raw text that make up the next input
    parsed         \* what the latest call was and what it returned

pipeVars == <<pc, should_stop, ring, raw_batch, pending, src_left, next_id,
              fg, new_logs, produced, dropped, calls, last_poll,
              start_result, stop_result, ever_running>>
engineVars == <<previous_query, previous_results, formatter_set, detail_level>>
appVars == <<raw_logs, displaying_logs, filter_input>>
parseVars == <<chunks, parsed>>
viewVars == <<filter_focused, selected, selected_log_uuid>>
decoderVars == <<parser_max_detail_level>>
sourceVars == <<dyeh, android>>
vars == <<pipeVars, appVars, engineVars, hist, parseVars, viewVars, decoderVars,
          sourceVars>>

\* LogParser::max_detail_level of a parser with three levels (0, 1, 2)
max_detail_level == 2

\* the log files of the directory a DyehLogProvider watches
FileNames == {"f1", "f2"}

\* DyehLogProvider::new in a directory without a log file yet: the path
\* "none" stands for __no_log_file_yet__.log.  files, latest and writes are
\* the file system; returned, twice and poll record what the polls read.
NewDyehLogProvider ==
    [files |-> [f \in FileNames |-> [exists |-> FALSE, len |-> 0, version |-> 0]],
     latest |-> "none",
     writes |-> 0,
     log_file_path |-> "none",
     last_len |-> 0,
     prev_meta |-> <<>>,
     returned |-> {},
     twice |-> FALSE,
     poll |-> [n |-> 0, saw |-> <<>>, from |-> 0, read |-> <<>>]]

\* AndroidLogProvider::new, with the thread that owns the provider (main)
\* before start(), no reader thread, and the three mutexes free.  children
\* are the adb processes spawned so far; child and child_to_kill are the
\* reader's locals; emitted, appended, polled, polls and stop_phase record
\* what was read, pushed and returned, and where the reader was at stop().
NewAndroidLogProvider ==
    [log_buffer |-> <<>>,
     should_stop |-> FALSE,
     child_process |-> <<>>,
     thread_handle |-> FALSE,
     main |-> "new",
     reader |-> "none",
     lock_stop |-> "free",
     lock_buffer |-> "free",
     lock_child |-> "free",
     children |-> <<>>,
     child |-> <<>>,
     child_to_kill |-> <<>>,
     log_line |-> <<>>,
     emitted |-> 0,
     appended |-> <<>>,
     polled |-> <<>>,
     polls |-> 0,
     stop_phase |-> "none"]

----------------------------------------------------------------------------
(* Bounds of the model *)

\* capacity of the ring buffer (AppDesc.ring_buffer_size; 16K by default)
RingCapacity == 2
\* raw strings the Source delivers in a whole run
MaxRaw == 4
\* raw strings one poll_logs() call returns at most
MaxBatch == 2
\* the call counters stop counting here
CallCap == 3
\* log items the viewer accumulates in the filter specification
MaxLogs == 3
\* log items one update_logs call receives at most there
MaxArrive == 2
\* chunks of a delta handed to the reassemblers
MaxEventChunks == 5
\* chunks of a raw log handed to a decoder
MaxDecoderChunks == 4

----------------------------------------------------------------------------
(* Helpers *)

Min(a, b) == IF a < b THEN a ELSE b

Bump(n) == Min(n + 1, CallCap)

\* 0..n-1 as a sequence: (0..n).collect()
Range(n) == [i \in 1..n |-> i - 1]

RECURSIVE SeqsUpTo(_, _)
SeqsUpTo(S, n) ==
    IF n = 0 THEN {<<>>}
    ELSE LET shorter == SeqsUpTo(S, n - 1)
         IN  shorter \cup {Append(s, x) : s \in {t \in shorter : Len(t) = n - 1}, x \in S}

\* s is an order-preserving subsequence of t
RECURSIVE IsSubseq(_, _)
IsSubseq(s, t) ==
    IF s = <<>> THEN TRUE
    ELSE IF t = <<>> THEN FALSE
    ELSE IF Head(s) = Head(t) THEN IsSubseq(Tail(s), Tail(t))
    ELSE IsSubseq(s, Tail(t))

NoDuplicates(s) == \A i, j \in 1..Len(s) : i # j => s[i] # s[j]

----------------------------------------------------------------------------
(* The Source and the Decoder the pipeline runs *)

\* the raw strings the Source hands out: a log line and a line the parser
\* filters out
RawPool == {<<"a">>, <<"#">>}

\* LogParser::parse: None (FALSE here) filters the raw string out
ParserAccepts(raw) == raw # <<"#">>

\* LogItem::new(content, raw): a fresh id, no metadata
LogItemNew(id, raw) == [id |-> id, content |-> raw, level |-> <<>>]

----------------------------------------------------------------------------
(* The ring buffer: HeapRb::new(ring_buffer_size).split() *)

IsFull(rb) == Len(rb) >= RingCapacity

\* Producer::try_push: Err(item) when full, the item appended otherwise
TryPushDropOldest(rb, item) ==
    IF IsFull(rb) THEN Append(Tail(rb), item) ELSE Append(rb, item)

TryPushUnchecked(rb, item) == Append(rb, item)

TryPush(rb, item) == IF IsFull(rb) THEN rb ELSE Append(rb, item)

----------------------------------------------------------------------------
(* Initial state: App::new has split the ring buffer and spawned the thread *)

InitEngine ==
    /\ previous_query = <<>>
    /\ previous_results = <<>>
    /\ detail_level = 1
    /\ hist = <<>>

InitPipe ==
    /\ pc = "start"
    /\ should_stop = FALSE
    /\ ring = <<>>
    /\ raw_batch = <<>>
    /\ pending = <<>>
    /\ src_left = MaxRaw
    /\ next_id = 0
    /\ fg = "run"
    /\ new_logs = <<>>
    /\ produced = <<>>
    /\ dropped = <<>>
    /\ calls = [start |-> 0, poll |-> 0, stop |-> 0, poll_after_flag |-> 0]
    /\ last_poll = "none"
    /\ start_result = "none"
    /\ stop_result = "none"
    /\ ever_running = FALSE

Init ==
    /\ InitPipe
    /\ InitEngine
    /\ formatter_set = TRUE
    /\ raw_logs = <<>>
    /\ displaying_logs = <<>>
    /\ filter_input = <<>>
    /\ filter_focused = FALSE
    /\ selected = <<>>
    /\ selected_log_uuid = <<>>
    /\ parser_max_detail_level = max_detail_level
    /\ dyeh = NewDyehLogProvider
    /\ android = NewAndroidLogProvider
    /\ chunks = <<>>
    /\ parsed = [op |-> "none"]

----------------------------------------------------------------------------
(* Text: str::starts_with, str::contains, str::to_lowercase *)

\* The characters of the model.  "SIGMA" is U+03A3, whose lower-case form
\* depends on its place in the word: "sigma" (U+03C3) or, at the end of a
\* word, "fsigma" (U+03C2).  "A" lower-cases to "a".
Cased == {"a", "A", "SIGMA", "sigma", "fsigma"}
CaseIgnorable == {"'"}

StartsWith(s, p) == Len(p) <= Len(s) /\ SubSeq(s, 1, Len(p)) = p

Contains(t, p) == \E i \in 0..(Len(t) - Len(p)) : SubSeq(t, i + 1, i + Len(p)) = p

Reverse(s) == [i \in 1..Len(s) |-> s[Len(s) + 1 - i]]

\* skip_while(Case_Ignorable), then the next character is Cased
RECURSIVE CaseIgnorableThenCased(_)
CaseIgnorableThenCased(s) ==
    IF s = <<>> THEN FALSE
    ELSE IF Head(s) \in CaseIgnorable THEN CaseIgnorableThenCased(Tail(s))
    ELSE Head(s) \in Cased

\* Final_Sigma: preceded by a cased letter and not followed by one
IsWordFinal(s, i) ==
    /\ CaseIgnorableThenCased(Reverse(SubSeq(s, 1, i - 1)))
    /\ ~CaseIgnorableThenCased(SubSeq(s, i + 1, Len(s)))

LowerChar(c) == IF c = "A" THEN "a" ELSE c

ToLowercase(s) ==
    [i \in 1..Len(s) |->
        IF s[i] = "SIGMA"
        THEN (IF IsWordFinal(s, i) THEN "fsigma" ELSE "sigma")
        ELSE LowerChar(s[i])]

----------------------------------------------------------------------------
(* The formatter the FilterEngine searches through *)

\* every LogItem carries the time it was created at
ItemTime == <<"t">>

Bracketed(field) == IF field = <<>> THEN <<>> ELSE <<"[">> \o field \o <<"]", " ">>

\* get_searchable_text = format_preview: content alone at level 0, the time
\* in front from level 1, time and level from level 2
SearchableText(item, d) ==
    IF d = 0 THEN item.content
    ELSE IF d = 1 THEN Bracketed(ItemTime) \o item.content
    ELSE Bracketed(ItemTime) \o Bracketed(item.level) \o item.content

----------------------------------------------------------------------------
(* FilterEngine (filter.rs).  Each call is an operator from the engine's   *)
(* fields and the arguments to a record: the returned index list, the      *)
(* fields afterwards, the indices whose text was evaluated, the branch.    *)

\* the size above which a search space goes to the worker pool
ParallelThreshold == 1000

Matches(logs, idx, pattern_lower, d) ==
    Contains(ToLowercase(SearchableText(logs[idx + 1], d)), pattern_lower)

FilterSequential(logs, search_space, pattern_lower, d) ==
    SelectSeq(search_space, LAMBDA idx : Matches(logs, idx, pattern_lower, d))

\* the halves of a split search space joined in the order the workers finish
RECURSIVE FilterParallelCompletionOrder(_, _, _, _)
FilterParallelCompletionOrder(logs, search_space, pattern_lower, d) ==
    IF Len(search_space) <= 1
    THEN FilterSequential(logs, search_space, pattern_lower, d)
    ELSE LET mid == Len(search_space) \div 2
         IN  FilterParallelCompletionOrder(logs,
                 SubSeq(search_space, mid + 1, Len(search_space)), pattern_lower, d)
             \o FilterParallelCompletionOrder(logs,
                 SubSeq(search_space, 1, mid), pattern_lower, d)

\* par_iter().filter().copied().collect(): the slice is split in halves
\* down to single indices, every piece is filtered by some worker, and
\* collect joins the pieces in the order of the slice
RECURSIVE FilterParallel(_, _, _, _)
FilterParallel(logs, search_space, pattern_lower, d) ==
    IF Len(search_space) <= 1
    THEN FilterSequential(logs, search_space, pattern_lower, d)
    ELSE LET mid == Len(search_space) \div 2
         IN  FilterParallel(logs, SubSeq(search_space, 1, mid), pattern_lower, d)
             \o FilterParallel(logs,
                 SubSeq(search_space, mid + 1, Len(search_space)), pattern_lower, d)

\* the worker pool taken from ParallelThreshold candidates on
FilterPathAtThreshold(search_space) ==
    IF Len(search_space) >= ParallelThreshold THEN "parallel" ELSE "sequential"

\* if search_space.len() > 1000 { filter_parallel } else { filter_sequential }
FilterPath(search_space) ==
    IF Len(search_space) > ParallelThreshold THEN "parallel" ELSE "sequential"

RunFilter(logs, search_space, pattern_lower, d) ==
    IF FilterPath(search_space) = "parallel"
    THEN FilterParallel(logs, search_space, pattern_lower, d)
    ELSE FilterSequential(logs, search_space, pattern_lower, d)

\* narrowing also within a cached result that is empty
CanUseIncrementalOnEmpty(pq, pr, query) ==
    /\ pq # <<>>
    /\ StartsWith(query, pq)

CanUseIncremental(pq, pr, query) ==
    /\ pq # <<>>
    /\ StartsWith(query, pq)
    /\ pr # <<>>

\* filter with the cache left alone on an empty query
FilterKeepingCache(pq, pr, fset, logs, query, d) ==
    IF query = <<>>
    THEN [result |-> Range(Len(logs)), query |-> pq, results |-> pr,
          space |-> <<>>, via |-> "empty"]
    ELSE LET incremental == CanUseIncremental(pq, pr, query)
             search_space == IF incremental THEN pr ELSE Range(Len(logs))
             filtered == RunFilter(logs, search_space, ToLowercase(query), d)
         IN  [result |-> filtered, query |-> query, results |-> filtered,
              space |-> search_space,
              via |-> IF incremental THEN "incremental" ELSE "full"]

\* FilterEngine::filter
Filter(pq, pr, fset, logs, query, d) ==
    IF query = <<>>
    THEN \* reset(), return all
         [result |-> Range(Len(logs)), query |-> <<>>, results |-> <<>>,
          space |-> <<>>, via |-> "empty"]
    ELSE IF ~fset
    THEN [result |-> Range(Len(logs)), query |-> pq, results |-> pr,
          space |-> <<>>, via |-> "noformatter"]
    ELSE LET incremental == CanUseIncremental(pq, pr, query)
             search_space == IF incremental THEN pr ELSE Range(Len(logs))
             filtered == RunFilter(logs, search_space, ToLowercase(query), d)
         IN  [result |-> filtered, query |-> query, results |-> filtered,
              space |-> search_space,
              via |-> IF incremental THEN "incremental" ELSE "full"]

\* FilterEngine::filter_new_logs
FilterNewLogs(pq, pr, fset, logs, old_count, query, d) ==
    IF query # pq THEN Filter(pq, pr, fset, logs, query, d)
    ELSE IF old_count >= Len(logs)
    THEN [result |-> pr, query |-> pq, results |-> pr,
          space |-> <<>>, via |-> "cached"]
    ELSE IF query = <<>>
    THEN [result |-> Range(Len(logs)), query |-> pq, results |-> pr,
          space |-> <<>>, via |-> "empty"]
    ELSE IF ~fset
    THEN [result |-> Range(Len(logs)), query |-> pq, results |-> pr,
          space |-> <<>>, via |-> "noformatter"]
    ELSE LET new_indices == [i \in 1..(Len(logs) - old_count) |-> old_count + i - 1]
             new_filtered == RunFilter(logs, new_indices, ToLowercase(query), d)
             all_results == pr \o new_filtered
         IN  [result |-> all_results, query |-> pq, results |-> all_results,
              space |-> new_indices, via |-> "new"]

\* the answer of a FilterEngine::new() with the formatter set, asked once
FreshFilter(logs, query, d) == Filter(<<>>, <<>>, TRUE, logs, query, d).result

----------------------------------------------------------------------------
(* The foreground's log and filter management (app/mod.rs) *)

\* App::get_filter_query: filter_input without its leading "/"
GetFilterQuery(fi) ==
    IF StartsWith(fi, <<"/">>) /\ Len(fi) > 1 THEN Tail(fi) ELSE <<>>

\* what one FilterEngine call was asked and what it answered
CallRecord(op, query, d, logs, old_count, r) ==
    [op |-> op, query |-> query, d |-> d, len |-> Len(logs),
     old_count |-> old_count, result |-> r.result, space |-> r.space,
     via |-> r.via,
     path |-> IF r.via \in {"full", "incremental", "new"}
              THEN FilterPath(r.space) ELSE "none"]

\* hist keeps the latest call and the one before it
Remember(rec) == IF hist = <<>> THEN <<rec>> ELSE <<rec, hist[1]>>

ExtendReversed(logs, items) == Reverse(items) \o logs

\* raw_logs.extend(new_logs)
Extend(logs, items) == logs \o items

\* App::update_logs after the ring buffer is drained into `items`: nothing
\* happens for an empty batch; otherwise the list grows and
\* filter_new_logs rebuilds displaying_logs
UpdateLogsWith(items) ==
    IF items = <<>>
    THEN UNCHANGED <<raw_logs, displaying_logs, previous_query, previous_results, hist>>
    ELSE LET old_raw_count == Len(raw_logs)
             logs == Extend(raw_logs, items)
             query == GetFilterQuery(filter_input)
         IN  \E r \in {FilterNewLogs(previous_query, previous_results, formatter_set,
                                    logs, old_raw_count, query, detail_level)} :
             /\ raw_logs' = logs
             /\ displaying_logs' = r.result
             /\ previous_query' = r.query
             /\ previous_results' = r.results
             /\ hist' = Remember(CallRecord("filter_new_logs", query, detail_level,
                                            logs, old_raw_count, r))

----------------------------------------------------------------------------
(* The provider thread: the closure of spawn_provider_thread *)

fgVars == <<fg, new_logs, appVars, engineVars, hist>>

AfterStartFallThrough(res) == "loop"

\* if let Err(e) = provider.start() { log::error!(..); return; }
AfterStart(res) == IF res = "err" THEN "aborted" ELSE "loop"

\* provider.start(): an error ends the thread
ProviderStart ==
    /\ pc = "start"
    /\ calls' = [calls EXCEPT !.start = Bump(@)]
    /\ \E res \in {"ok", "err"} :
         /\ start_result' = res
         /\ pc' = AfterStart(res)
         /\ ever_running' = (AfterStart(res) = "loop")
    /\ UNCHANGED <<should_stop, ring, raw_batch, pending, src_left, next_id,
                   produced, dropped, last_poll, stop_result, fgVars>>

LoopTargetIgnoringStop(flag) == "poll"

\* while !should_stop.load(Relaxed)
LoopTarget(flag) == IF flag THEN "stopping" ELSE "poll"

LoopCheck ==
    /\ pc = "loop"
    /\ pc' = LoopTarget(should_stop)
    /\ UNCHANGED <<should_stop, ring, raw_batch, pending, src_left, next_id,
                   produced, dropped, calls, last_poll, start_result,
                   stop_result, ever_running, fgVars>>

AfterPollErrorAbort == "stopping"

\* Err(e) => log::debug!(..): on to the sleep
AfterPollError == "sleep"

\* provider.poll_logs(): Err, or Ok with zero or more raw strings
PollLogs ==
    /\ pc = "poll"
    /\ calls' = [calls EXCEPT !.poll = Bump(@),
                              !.poll_after_flag = IF should_stop THEN Bump(@) ELSE @]
    /\ \/ /\ last_poll' = "err"
          /\ pc' = AfterPollError
          /\ UNCHANGED <<raw_batch, src_left>>
       \/ \E batch \in SeqsUpTo(RawPool, Min(MaxBatch, src_left)) :
            /\ last_poll' = "ok"
            /\ raw_batch' = batch
            /\ src_left' = src_left - Len(batch)
            /\ pc' = "iter"
    /\ UNCHANGED <<should_stop, ring, pending, next_id, produced, dropped,
                   start_result, stop_result, ever_running, fgVars>>

\* a None from the parser taken as the end of the batch
AfterParseNoneBreak == "sleep"

\* parser.parse(&raw_log) is None: the `if let` is skipped and the for loop
\* goes on with the next raw string
AfterParseNone == "iter"

\* for raw_log in raw_logs { if let Some(log_item) = parser.parse(&raw_log) ..
ParseNext ==
    /\ pc = "iter"
    /\ IF raw_batch = <<>>
       THEN /\ pc' = "sleep"
            /\ UNCHANGED <<raw_batch, pending, next_id, produced>>
       ELSE /\ raw_batch' = Tail(raw_batch)
            /\ IF ParserAccepts(Head(raw_batch))
               THEN /\ pending' = <<LogItemNew(next_id + 1, Head(raw_batch))>>
                    /\ next_id' = next_id + 1
                    /\ produced' = Append(produced, LogItemNew(next_id + 1, Head(raw_batch)))
                    /\ pc' = "push"
               ELSE /\ pc' = AfterParseNone
                    /\ UNCHANGED <<pending, next_id, produced>>
    /\ UNCHANGED <<should_stop, ring, src_left, dropped, calls, last_poll,
                   start_result, stop_result, ever_running, fgVars>>

PushReadyWhenRoom(rb) == ~IsFull(rb)

\* try_push never waits
PushReady(rb) == TRUE

\* .. && producer.try_push(log_item).is_err() { log::debug!(..) }
PushItem ==
    /\ pc = "push"
    /\ PushReady(ring)
    /\ ring' = TryPush(ring, pending[1])
    /\ dropped' = IF IsFull(ring) THEN Append(dropped, pending[1]) ELSE dropped
    /\ pending' = <<>>
    /\ pc' = "iter"
    /\ UNCHANGED <<should_stop, raw_batch, src_left, next_id, produced, calls,
                   last_poll, start_result, stop_result, ever_running, fgVars>>

\* the sleep followed by the next poll_logs() without a look at the flag
AfterSleepSkippingCheck == "poll"

\* the end of the loop body: back to the while condition
AfterSleep == "loop"

\* thread::sleep(poll_interval)
Sleep ==
    /\ pc = "sleep"
    /\ pc' = AfterSleep
    /\ UNCHANGED <<should_stop, ring, raw_batch, pending, src_left, next_id,
                   produced, dropped, calls, last_poll, start_result,
                   stop_result, ever_running, fgVars>>

\* provider.stop(): an error is logged, the thread ends either way
ProviderStop ==
    /\ pc = "stopping"
    /\ calls' = [calls EXCEPT !.stop = Bump(@)]
    /\ \E res \in {"ok", "err"} : stop_result' = res
    /\ pc' = "done"
    /\ UNCHANGED <<should_stop, ring, raw_batch, pending, src_left, next_id,
                   produced, dropped, last_poll, start_result, ever_running,
                   fgVars>>

ProviderStep ==
    /\ UNCHANGED <<parseVars, viewVars, decoderVars, sourceVars>>
    /\ \/ ProviderStart
       \/ LoopCheck
       \/ PollLogs
       \/ ParseNext
       \/ PushItem
       \/ Sleep
       \/ ProviderStop

----------------------------------------------------------------------------
(* The foreground thread: App::run, App::update_logs, App::cleanup *)

providerVars == <<pc, raw_batch, pending, src_left, next_id, produced, dropped,
                  calls, last_poll, start_result, stop_result, ever_running>>

\* update_logs is due: start draining the ring buffer
UpdateLogsBegin ==
    /\ fg = "run"
    /\ fg' = "pop"
    /\ new_logs' = <<>>
    /\ UNCHANGED <<providerVars, should_stop, ring, appVars, engineVars, hist>>

\* while let Some(log) = self.log_consumer.try_pop() { new_logs.push(log) }
\* and, once try_pop answers None, the rest of update_logs
UpdateLogsPop ==
    /\ fg = "pop"
    /\ IF ring # <<>>
       THEN /\ new_logs' = Append(new_logs, Head(ring))
            /\ ring' = Tail(ring)
            /\ UNCHANGED <<fg, raw_logs, displaying_logs, previous_query,
                           previous_results, hist>>
       ELSE /\ UpdateLogsWith(new_logs)
            /\ new_logs' = <<>>
            /\ fg' = "run"
            /\ UNCHANGED ring
    /\ UNCHANGED <<providerVars, should_stop, filter_input, formatter_set,
                   detail_level>>

\* is_exiting is set ('q' or Ctrl-c): the run loop ends and cleanup begins
Quit ==
    /\ fg = "run"
    /\ fg' = "cleanup"
    /\ UNCHANGED <<providerVars, should_stop, ring, new_logs, appVars,
                   engineVars, hist>>

\* cleanup: provider_stop_signal.store(true)
CleanupSignal ==
    /\ fg = "cleanup"
    /\ should_stop' = TRUE
    /\ fg' = "join"
    /\ UNCHANGED <<providerVars, ring, new_logs, appVars, engineVars, hist>>

\* cleanup: handle.join() returns once the provider thread has ended
CleanupJoin ==
    /\ fg = "join"
    /\ pc \in {"done", "aborted"}
    /\ fg' = "exited"
    /\ UNCHANGED <<providerVars, should_stop, ring, new_logs, appVars,
                   engineVars, hist>>

ForegroundStep ==
    /\ UNCHANGED <<parseVars, viewVars, decoderVars, sourceVars>>
    /\ \/ UpdateLogsBegin
       \/ UpdateLogsPop
       \/ Quit
       \/ CleanupSignal
       \/ CleanupJoin

Next == ProviderStep \/ ForegroundStep

Spec == Init /\ [][Next]_vars

\* the operating system schedules both threads; every call returns
FairSpec == Spec /\ WF_vars(ProviderStep) /\ WF_vars(ForegroundStep)

----------------------------------------------------------------------------
(* The FilterEngine as the viewer drives it: the filter text changes and   *)
(* apply_filter runs, log items arrive and update_logs runs, the detail    *)
(* level keys reset the cache and rebuild the list.                        *)

\* the filter texts typed in the model, closed under prefixes
Queries ==
    {<<>>, <<"a">>, <<"A">>, <<"A", "SIGMA">>, <<"A", "SIGMA", "A">>}

\* content and level of the log items that arrive
ItemPool ==
    {[content |-> <<"A", "SIGMA", "A">>, level |-> <<>>],
     [content |-> <<"A", "SIGMA">>, level |-> <<>>],
     [content |-> <<"a">>, level |-> <<"A", "SIGMA">>]}

WithIds(batch, first) ==
    [i \in 1..Len(batch) |->
        [id |-> first + i, content |-> batch[i].content, level |-> batch[i].level]]

\* the cache as the key handler finds it
ResetCacheKept == [query |-> previous_query, results |-> previous_results]

\* FilterEngine::reset on the (query, results) pair
ResetCache == [query |-> <<>>, results |-> <<>>]

\* App::rebuild_filtered_list on the cache (pq, pr)
RebuildFilteredList(op, pq, pr) ==
    LET query == GetFilterQuery(filter_input')
    IN  \E r \in {Filter(pq, pr, formatter_set, raw_logs, query, detail_level')} :
        /\ displaying_logs' = r.result
        /\ previous_query' = r.query
        /\ previous_results' = r.results
        /\ hist' = Remember(CallRecord(op, query, detail_level', raw_logs,
                                       Len(raw_logs), r))

\* apply_filter with the filter text q: rebuild_filtered_list hands the
\* engine the text after the "/".  A keystroke changes the text by one
\* character; FilterEngine::filter itself takes any query, so q ranges over
\* all of Queries.
SetFilter(q) ==
    /\ filter_input' = IF q = <<>> THEN <<>> ELSE <<"/">> \o q
    /\ UNCHANGED <<raw_logs, formatter_set, detail_level>>
    /\ RebuildFilteredList("filter", previous_query, previous_results)
    /\ UNCHANGED pipeVars

\* update_logs with a drained batch of new items
LogsArrive(batch) ==
    /\ Len(raw_logs) + Len(batch) <= MaxLogs
    /\ UpdateLogsWith(WithIds(batch, Len(raw_logs)))
    /\ UNCHANGED <<filter_input, formatter_set, detail_level>>
    /\ UNCHANGED pipeVars

\* LogDetailLevel = u8
U8Max == 255

\* level.wrapping_add(1).min(max)
IncrementWrapping(level, max) == Min((level + 1) % (U8Max + 1), max)

\* level.saturating_add(1).min(max)
IncrementDetailLevel(level, max) ==
    Min(IF level = U8Max THEN U8Max ELSE level + 1, max)

\* level.saturating_sub(1)
DecrementDetailLevel(level) == IF level = 0 THEN 0 ELSE level - 1

\* the "[" and "]" keys: new level, filter_engine.reset(),
\* rebuild_filtered_list()
DetailLevelKey(up) ==
    /\ detail_level' = IF up THEN IncrementDetailLevel(detail_level, parser_max_detail_level)
                             ELSE DecrementDetailLevel(detail_level)
    /\ UNCHANGED <<raw_logs, filter_input, formatter_set>>
    /\ RebuildFilteredList("reset+filter", ResetCache.query, ResetCache.results)
    /\ UNCHANGED pipeVars

NextFilter ==
    /\ UNCHANGED <<parseVars, viewVars, decoderVars, sourceVars>>
    /\ \/ \E q \in Queries : SetFilter(q)
       \/ \E batch \in SeqsUpTo(ItemPool, MaxArrive) \ {<<>>} : LogsArrive(batch)
       \/ \E up \in BOOLEAN : DetailLevelKey(up)

SpecFilter == Init /\ [][NextFilter]_vars

\* FilterEngine::filter_new_logs(raw_logs, old_count, query, detail_level)
\* as the method allows it to be called: the list has grown by a batch,
\* which may be empty, and the query is any query, the cached one or
\* another
FilterNewLogsWith(batch, q) ==
    /\ Len(raw_logs) + Len(batch) <= MaxLogs
    /\ filter_input' = IF q = <<>> THEN <<>> ELSE <<"/">> \o q
    /\ LET old_count == Len(raw_logs)
           logs == Extend(raw_logs, WithIds(batch, Len(raw_logs)))
       IN  \E r \in {FilterNewLogs(previous_query, previous_results, formatter_set,
                                  logs, old_count, q, detail_level)} :
           /\ raw_logs' = logs
           /\ displaying_logs' = r.result
           /\ previous_query' = r.query
           /\ previous_results' = r.results
           /\ hist' = Remember(CallRecord("filter_new_logs", q, detail_level,
                                          logs, old_count, r))
    /\ UNCHANGED <<formatter_set, detail_level>>
    /\ UNCHANGED pipeVars

----------------------------------------------------------------------------
(* The viewer key by key (app/events.rs): SpecViewer starts the App with or
   without an initial filter and lets keys and arrival batches follow in
   any order. *)

MaxQueryLen == 3

\* the characters typed into the filter line
TypedChars == {"a", "A", "SIGMA"}

\* AppDesc.initial_filter, None or Some(value)
InitialFilters == {<<>>, <<"A">>, <<"/", "A">>, <<"/">>}

\* value.trim_start_matches('/')
TrimStartSlashes(value) ==
    LET stops == {i \in 1..Len(value) : value[i] # "/"}
    IN  IF stops = {} THEN <<>>
        ELSE SubSeq(value, CHOOSE i \in stops : \A j \in stops : i <= j, Len(value))

\* the initial_filter_input of App::new
InitialFilterInput(value) ==
    IF TrimStartSlashes(value) = <<>> THEN <<>>
    ELSE <<"/">> \o TrimStartSlashes(value)

\* App::new with a parser whose max_detail_level() is one of maxima
InitViewerFor(maxima) ==
    /\ InitPipe
    /\ InitEngine
    /\ formatter_set = TRUE
    /\ raw_logs = <<>>
    /\ displaying_logs = <<>>
    /\ filter_input \in {InitialFilterInput(value) : value \in InitialFilters}
    /\ filter_focused = FALSE
    /\ selected = <<>>
    /\ selected_log_uuid = <<>>
    /\ parser_max_detail_level \in maxima
    /\ dyeh = NewDyehLogProvider
    /\ android = NewAndroidLogProvider
    /\ chunks = <<>>
    /\ parsed = [op |-> "none"]

InitViewer == InitViewerFor({max_detail_level})

\* if !self.filter_input.is_empty() && self.filter_focused
FilterMode == filter_input # <<>> /\ filter_focused

\* apply_filter on the cache as it is
ApplyFilter == RebuildFilteredList("filter", previous_query, previous_results)

\* String::pop
Pop(s) == SubSeq(s, 1, Len(s) - 1)

\* the selection left at its old position when that position still exists
KeepPosition(indices, logs, uuid) ==
    IF selected # <<>> /\ selected[1] < Len(indices)
    THEN [selected |-> selected, uuid |-> <<logs[indices[selected[1] + 1] + 1].id>>]
    ELSE [selected |-> <<>>, uuid |-> <<>>]

\* the ListState carried over to the rebuilt list as it was
KeepSelection(indices, logs, uuid) == [selected |-> selected, uuid |-> uuid]

\* App::find_log_by_uuid: the first position of the displayed list whose
\* entry has the id, <<>> if there is none
FindLogByUuid(indices, logs, uuid) ==
    LET hits == {p \in 1..Len(indices) : logs[indices[p] + 1].id = uuid}
    IN  IF hits = {} THEN <<>>
        ELSE <<(CHOOSE p \in hits : \A q \in hits : p <= q) - 1>>

\* App::update_selection_by_uuid on a list that was just built by
\* LogList::new, whose ListState::default() has nothing selected
UpdateSelectionByUuid(indices, logs, uuid) ==
    IF uuid = <<>> THEN [selected |-> <<>>, uuid |-> <<>>]
    ELSE IF FindLogByUuid(indices, logs, uuid[1]) = <<>>
    THEN [selected |-> <<>>, uuid |-> <<>>]
    ELSE [selected |-> FindLogByUuid(indices, logs, uuid[1]), uuid |-> uuid]

\* App::update_selected_uuid for the selection sel
UpdateSelectedUuid(indices, logs, sel) ==
    IF sel = <<>> THEN <<>>
    ELSE IF Len(indices) = 0 THEN <<>>
    ELSE IF sel[1] >= Len(indices) THEN <<>>
    ELSE <<logs[indices[sel[1] + 1] + 1].id>>

\* the selection after displaying_logs was replaced: apply_filter,
\* update_logs and the detail level keys look the tracked id up again
Reselect ==
    \E r \in {UpdateSelectionByUuid(displaying_logs', raw_logs', selected_log_uuid)} :
        /\ selected' = r.selected
        /\ selected_log_uuid' = r.uuid

\* LogList::select_next_circular, select_next, select_previous_circular,
\* select_previous
SelectMove(indices, sel, move_next, circular) ==
    LET len == Len(indices)
    IN  IF len = 0 THEN <<>>
        ELSE IF move_next
        THEN IF sel = <<>> THEN <<0>>
             ELSE IF sel[1] + 1 >= len
                  THEN (IF circular THEN <<0>> ELSE <<len - 1>>)
                  ELSE <<sel[1] + 1>>
        ELSE IF sel = <<>> THEN (IF circular THEN <<len - 1>> ELSE <<0>>)
             ELSE IF sel[1] = 0
                  THEN (IF circular THEN <<len - 1>> ELSE <<0>>)
                  ELSE <<sel[1] - 1>>

\* the selection becomes sel and the tracked id follows it
SelectionBecomes(sel) ==
    /\ selected' = sel
    /\ selected_log_uuid' = UpdateSelectedUuid(displaying_logs, raw_logs, sel)
    /\ UNCHANGED <<appVars, engineVars, hist, filter_focused>>

\* handle_log_item_scrolling(move_next, circular)
MoveSelection(move_next, circular) ==
    SelectionBecomes(SelectMove(displaying_logs, selected, move_next, circular))

\* a left click on a row of the logs block that shows an entry
ClickRow(row) ==
    /\ row < Len(displaying_logs)
    /\ SelectionBecomes(<<row>>)

\* KeyCode::Char('d') outside filter mode: the last entry is selected
KeyLast ==
    /\ ~FilterMode
    /\ SelectionBecomes(IF displaying_logs = <<>> THEN <<>>
                        ELSE <<Len(displaying_logs) - 1>>)

\* KeyCode::Char(c) in filter mode
KeyChar(c) ==
    /\ FilterMode
    /\ Len(filter_input) <= MaxQueryLen
    /\ filter_input' = Append(filter_input, c)
    /\ UNCHANGED <<raw_logs, formatter_set, detail_level, filter_focused>>
    /\ ApplyFilter
    /\ Reselect

\* KeyCode::Backspace in filter mode
KeyBackspace ==
    /\ FilterMode
    /\ filter_input' = Pop(filter_input)
    /\ filter_focused' = (Pop(filter_input) # <<>>)
    /\ UNCHANGED <<raw_logs, formatter_set, detail_level>>
    /\ ApplyFilter
    /\ Reselect

\* KeyCode::Esc: in filter mode the filter is cleared and loses the keys;
\* outside it an active filter is cleared
KeyEsc ==
    /\ filter_input # <<>>
    /\ filter_input' = <<>>
    /\ filter_focused' = FALSE
    /\ UNCHANGED <<raw_logs, formatter_set, detail_level>>
    /\ ApplyFilter
    /\ Reselect

\* KeyCode::Enter in filter mode: the filter stays unless only "/" is left
KeyEnter ==
    /\ FilterMode
    /\ filter_focused' = FALSE
    /\ IF Len(filter_input) = 1
       THEN /\ filter_input' = <<>>
            /\ UNCHANGED <<raw_logs, formatter_set, detail_level>>
            /\ ApplyFilter
            /\ Reselect
       ELSE UNCHANGED <<appVars, engineVars, hist, selected, selected_log_uuid>>

\* KeyCode::Char('/') outside filter mode
KeySlash ==
    /\ ~FilterMode
    /\ filter_input' = <<"/">>
    /\ filter_focused' = TRUE
    /\ UNCHANGED <<raw_logs, formatter_set, detail_level>>
    /\ ApplyFilter
    /\ Reselect

\* clear_logs: raw_logs.clear(), filter_engine.reset(), apply_filter()
ClearLogs ==
    /\ raw_logs' = <<>>
    /\ UNCHANGED <<filter_input, formatter_set, detail_level>>
    /\ \E r \in {Filter(ResetCache.query, ResetCache.results, formatter_set, <<>>,
                         GetFilterQuery(filter_input), detail_level)} :
        /\ displaying_logs' = r.result
        /\ previous_query' = r.query
        /\ previous_results' = r.results
        /\ hist' = Remember(CallRecord("reset+filter", GetFilterQuery(filter_input),
                                       detail_level, <<>>, 0, r))

\* KeyCode::Char('c') without CONTROL, outside filter mode
KeyClear ==
    /\ ~FilterMode
    /\ raw_logs # <<>>
    /\ ClearLogs
    /\ Reselect
    /\ UNCHANGED filter_focused

\* KeyCode::Char('[') and KeyCode::Char(']') outside filter mode
KeyDetailLevel(up) ==
    /\ ~FilterMode
    /\ DetailLevelKey(up)
    /\ Reselect
    /\ UNCHANGED filter_focused

\* update_logs finds a batch in the ring buffer
ViewerLogsArrive(batch) ==
    /\ LogsArrive(batch)
    /\ Reselect
    /\ UNCHANGED filter_focused

NextViewer ==
    /\ UNCHANGED <<parseVars, pipeVars, decoderVars, sourceVars>>
    /\ \/ \E c \in TypedChars : KeyChar(c)
       \/ KeyBackspace
       \/ KeyEsc
       \/ KeyEnter
       \/ KeySlash
       \/ KeyClear
       \/ \E up \in BOOLEAN : KeyDetailLevel(up)
       \/ \E batch \in SeqsUpTo(ItemPool, MaxArrive) \ {<<>>} : ViewerLogsArrive(batch)
       \/ \E move_next, circular \in BOOLEAN : MoveSelection(move_next, circular)
       \/ \E row \in 0..(MaxLogs - 1) : ClickRow(row)
       \/ KeyLast

SpecViewer == InitViewer /\ [][NextViewer]_vars

\* the maxima of the parsers the viewer is built with: a parser with one
\* level (0) up to the parser with three (0, 1, 2)
DecoderMaxima == 0..max_detail_level

InitLevelKeys == InitViewerFor(DecoderMaxima)

\* the viewer under detail level keys, arrivals and selection keys
NextLevelKeys ==
    /\ UNCHANGED <<parseVars, pipeVars, decoderVars, sourceVars>>
    /\ \/ \E up \in BOOLEAN : KeyDetailLevel(up)
       \/ \E batch \in SeqsUpTo(ItemPool, MaxArrive) \ {<<>>} : ViewerLogsArrive(batch)
       \/ \E move_next, circular \in BOOLEAN : MoveSelection(move_next, circular)

SpecLevelKeys == InitLevelKeys /\ [][NextLevelKeys]_vars

\* how far from ParallelThreshold the size of a burst lies
NearThreshold == 1

MaxPeriod == 2

MaxBurstCalls == 2

\* n entries that repeat the contents of pattern
PatternLogs(n, pattern) ==
    [i \in 1..n |->
        [id |-> i, content |-> pattern[((i - 1) % Len(pattern)) + 1].content,
         level |-> pattern[((i - 1) % Len(pattern)) + 1].level]]

\* update_logs after a burst: the ring buffer (16K items) held n items
BurstArrives(n, pattern) ==
    /\ raw_logs = <<>>
    /\ UpdateLogsWith(PatternLogs(n, pattern))
    /\ UNCHANGED <<filter_input, formatter_set, detail_level>>
    /\ UNCHANGED pipeVars

\* the viewer around one burst of about ParallelThreshold entries
NextBurst ==
    /\ Len(hist) < MaxBurstCalls
    /\ UNCHANGED <<parseVars, viewVars, decoderVars, sourceVars>>
    /\ \/ \E q \in Queries : SetFilter(q)
       \/ \E n \in (ParallelThreshold - NearThreshold)..(ParallelThreshold + NearThreshold),
             pattern \in SeqsUpTo(ItemPool, MaxPeriod) \ {<<>>} :
             BurstArrives(n, pattern)

SpecBurst == Init /\ [][NextBurst]_vars

\* the FilterEngine under any sequence of calls of its methods
NextEngine ==
    /\ UNCHANGED <<parseVars, viewVars, decoderVars, sourceVars>>
    /\ \/ \E q \in Queries : SetFilter(q)
       \/ \E batch \in SeqsUpTo(ItemPool, MaxArrive), q \in Queries :
             FilterNewLogsWith(batch, q)
       \/ \E up \in BOOLEAN : DetailLevelKey(up)

SpecEngine == Init /\ [][NextEngine]_vars

----------------------------------------------------------------------------
(* Text of the decoders and of the structured reassembler.  A text is a    *)
(* sequence of tokens.  One-byte tokens: "[", "]", "#", " ", "\n", "U" (an *)
(* upper-case ASCII letter), "l" (a lower-case ASCII letter).  Literals    *)
(* the regular expressions match as a whole are one token each:            *)
(*   "D"  ## 2025-11-14 15:48:35       (ITEM_SEP_RE)                       *)
(*   "T"  [2025-11-14 15:48:35.131] [info]  (the inline header)           *)
(*   "P"  bef_effect_onpause_imp(      "OP"  onpause                       *)
(*   "R"  bef_effect_onresume_imp(                                         *)
(*   "AE" [ 11-14 15:48:35.131 20387:30427 I/[Effect] ]                    *)
(*   "IW" Oct 29 11:27:36 EffectCam[6923] <Notice>: (with its last space)  *)

Whitespace == {" ", "\n"}

\* the length of a token in bytes
Width(c) ==
    CASE c = "D" -> 22
      [] c = "T" -> 32
      [] c = "P" -> 23
      [] c = "OP" -> 7
      [] c = "R" -> 24
      [] c = "AE" -> 45
      [] c = "IW" -> 42
      [] OTHER -> 1

\* the byte offset at which token i of text starts; i = Len(text) + 1
\* gives text.len()
RECURSIVE OffsetOf(_, _)
OffsetOf(text, i) ==
    IF i <= 1 THEN 0 ELSE OffsetOf(text, i - 1) + Width(text[i - 1])

\* the first index >= from whose token is in S, Len(text) + 1 if none
IndexFrom(text, from, S) ==
    LET hits == {i \in from..Len(text) : text[i] \in S}
    IN  IF hits = {} THEN Len(text) + 1
        ELSE CHOOSE i \in hits : \A j \in hits : i <= j

\* the first index >= from whose token is not in S, Len(text) + 1 if none
SkipFrom(text, from, S) ==
    LET stops == {i \in from..Len(text) : text[i] \notin S}
    IN  IF stops = {} THEN Len(text) + 1
        ELSE CHOOSE i \in stops : \A j \in stops : i <= j

\* str::trim_start, str::trim
TrimStart(s) == SubSeq(s, SkipFrom(s, 1, Whitespace), Len(s))

Trim(s) == Reverse(TrimStart(Reverse(TrimStart(s))))

----------------------------------------------------------------------------
(* lazylog-parser: process_delta and its helpers (lazylog-parser/lib.rs)   *)

\* LogItem::new(content, raw_content) of the decoders: no metadata yet
NewLogItem(content, raw_content) ==
    [content |-> content, raw_content |-> raw_content, metadata |-> {}]

\* LogItem::with_metadata: HashMap::insert of (key, value)
WithMetadata(item, key, value) ==
    [item EXCEPT !.metadata = {kv \in @ : kv[1] # key} \cup {<<key, value>>}]

GetMetadata(item, key) ==
    IF \E kv \in item.metadata : kv[1] = key
    THEN (CHOOSE kv \in item.metadata : kv[1] = key)[2]
    ELSE <<>>

HasMetadata(item, key) == \E kv \in item.metadata : kv[1] = key

\* LEADING_HEADER_RE: ^T\s*\n? found at the start and cut off
StripLeadingHeader(s) ==
    IF s # <<>> /\ s[1] = "T"
    THEN SubSeq(s, SkipFrom(s, 2, Whitespace), Len(s))
    ELSE s

\* INLINE_HEADER_RE.replace_all(s, ""): every T\s* is removed
RECURSIVE RemoveInlineHeaders(_)
RemoveInlineHeaders(s) ==
    IF s = <<>> THEN <<>>
    ELSE IF s[1] = "T"
    THEN RemoveInlineHeaders(SubSeq(s, SkipFrom(s, 2, Whitespace), Len(s)))
    ELSE <<s[1]>> \o RemoveInlineHeaders(Tail(s))

\* step 1 of process_delta
CleanBody(d) == Trim(RemoveInlineHeaders(StripLeadingHeader(d)))

\* the tokens a "]" occurs in
ClosesBracket == {"]", "T", "AE", "IW"}

\* CONTENT_HEADER_RE on line: [origin] LEVEL ## [tag] msg.  The answer is
\* <<caps>> with the four captures, or <<>> when the expression does not
\* match.  [^\]]+ stops at the first "]", [A-Z]+ takes the run of
\* upper-case letters, \s* the run of whitespace.
ContentHeaderCaptures(line) ==
    LET close1 == IndexFrom(line, 2, ClosesBracket)
        lvl    == SkipFrom(line, close1 + 1, Whitespace)
        lvlEnd == SkipFrom(line, lvl, {"U"})
        hash   == SkipFrom(line, lvlEnd, Whitespace)
        open2  == SkipFrom(line, hash + 2, Whitespace)
        close2 == IndexFrom(line, open2 + 1, ClosesBracket)
    IN  IF /\ line # <<>>
           /\ line[1] = "["
           /\ close1 >= 3 /\ close1 <= Len(line) /\ line[close1] = "]"
           /\ lvlEnd > lvl
           /\ hash + 1 <= Len(line) /\ line[hash] = "#" /\ line[hash + 1] = "#"
           /\ open2 <= Len(line) /\ line[open2] = "["
           /\ close2 >= open2 + 2 /\ close2 <= Len(line) /\ line[close2] = "]"
        THEN <<[origin |-> SubSeq(line, 2, close1 - 1),
                level  |-> SubSeq(line, lvl, lvlEnd - 1),
                tag    |-> SubSeq(line, open2 + 1, close2 - 1),
                msg    |-> SubSeq(line, SkipFrom(line, close2 + 1, Whitespace),
                                  Len(line))]>>
        ELSE <<>>

\* split_header that never finds a header
SplitHeaderNoMatch(content) ==
    [origin |-> <<>>, level |-> <<>>, tag |-> <<>>, msg |-> Trim(TrimStart(content))]

\* split_header: (origin, level, tag, msg)
SplitHeader(content) ==
    LET line == TrimStart(content)
        caps == ContentHeaderCaptures(line)
    IN  IF caps # <<>>
        THEN [origin |-> Trim(caps[1].origin), level |-> Trim(caps[1].level),
              tag |-> Trim(caps[1].tag), msg |-> Trim(caps[1].msg)]
        ELSE [origin |-> <<>>, level |-> <<>>, tag |-> <<>>, msg |-> Trim(line)]

\* parse_structured: ITEM_PARSE_RE is ^D\s*(.*); Some(item) is <<item>>
ParseStructured(block) ==
    IF block # <<>> /\ block[1] = "D"
    THEN LET raw_content == Trim(SubSeq(block, SkipFrom(block, 2, Whitespace),
                                        Len(block)))
         IN  <<NewLogItem(raw_content, raw_content)>>
    ELSE <<>>

\* ITEM_SEP_RE.find_iter(body): the token indices of the delimiters
RECURSIVE ItemStarts(_, _)
ItemStarts(body, from) ==
    LET i == IndexFrom(body, from, {"D"})
    IN  IF i > Len(body) THEN <<>> ELSE <<i>> \o ItemStarts(body, i + 1)

\* with_metadata for every key, empty values included
AddMetadataAlways(item, key, value) == WithMetadata(item, key, value)

\* if !value.is_empty() { item = item.with_metadata(key, value) }
AddMetadata(item, key, value) ==
    IF value # <<>> THEN WithMetadata(item, key, value) ELSE item

\* the body of the loop over starts.windows(2) for the window [s, e)
ItemOfWindow(body, s, e) ==
    LET got == ParseStructured(SubSeq(body, s, e - 1))
    IN  IF got = <<>> THEN <<>>
        ELSE LET h == SplitHeader(got[1].content)
                 item0 == NewLogItem(h.msg, got[1].raw_content)
                 item1 == AddMetadata(item0, "level", h.level)
                 item2 == AddMetadata(item1, "origin", h.origin)
             IN  <<AddMetadata(item2, "tag", h.tag)>>

RECURSIVE ItemsOfWindows(_, _, _)
ItemsOfWindows(body, starts, k) ==
    IF k >= Len(starts) THEN <<>>
    ELSE ItemOfWindow(body, starts[k], starts[k + 1])
         \o ItemsOfWindows(body, starts, k + 1)

\* process_delta that passes a body without delimiter on as one raw entry
ProcessDeltaRawFallback(d) ==
    LET body == CleanBody(d)
        starts == ItemStarts(body, 1)
    IN  IF body = <<>> THEN <<>>
        ELSE IF starts = <<>> THEN <<NewLogItem(body, body)>>
        ELSE ItemsOfWindows(body, Append(starts, Len(body) + 1), 1)

\* process_delta of lazylog-parser
ProcessDelta(d) ==
    LET body == CleanBody(d)
        starts == ItemStarts(body, 1)
    IN  IF body = <<>> THEN <<>>
        ELSE IF starts = <<>> THEN <<>>
        ELSE ItemsOfWindows(body, Append(starts, Len(body) + 1), 1)

----------------------------------------------------------------------------
(* The reassembler with special events: process_delta of                   *)
(* lazylog-dyeh/parser.rs (the same code as src/log_parser.rs)             *)

\* the LogItem of that crate: six owned strings
DyehLogItem(time, level, origin, tag, content, raw_content) ==
    [time |-> time, level |-> level, origin |-> origin, tag |-> tag,
     content |-> content, raw_content |-> raw_content]

PAUSED == <<"DYEH PAUSED">>

RESUMED == <<"DYEH RESUMED">>

\* what PAUSE_RE and RESUME_RE find
PauseMarkers == {"P", "OP"}

ResumeMarkers == {"R"}

\* slice::sort_by_key, a stable sort: keys[i] is the key of s[i], and an
\* element goes behind the smaller keys and the equal keys pushed before it
SortByKey(s, keys) ==
    LET rank(i) == Cardinality({j \in 1..Len(s) :
                        keys[j] < keys[i] \/ (keys[j] = keys[i] /\ j < i)}) + 1
    IN  [r \in 1..Len(s) |-> s[CHOOSE i \in 1..Len(s) : rank(i) = r]]

\* the range of the full source line(s) around the match at token i:
\* back to the byte after the previous "\n", on to the byte after the
\* next "\n" or to the end of the text
LineRange(text, i) ==
    LET before == {j \in 1..(i - 1) : text[j] = "\n"}
        first == IF before = {} THEN 1
                 ELSE (CHOOSE j \in before : \A k \in before : k <= j) + 1
        nl == IndexFrom(text, i + 1, {"\n"})
    IN  [start |-> OffsetOf(text, first),
         end |-> OffsetOf(text, IF nl > Len(text) THEN Len(text) + 1 ELSE nl + 1)]

\* find_iter(text).map(..).collect()
RECURSIVE MatchRanges(_, _, _)
MatchRanges(text, markers, from) ==
    LET i == IndexFrom(text, from, markers)
    IN  IF i > Len(text) THEN <<>>
        ELSE <<LineRange(text, i)>> \o MatchRanges(text, markers, i + 1)

\* a range joins the last one only when it starts before its end
MergeableOverlapping(r, last) == r.start < last.end

\* a range joins the last one when it starts at or before its end
MergeableTouching(r, last) == r.start <= last.end

\* r.start <= last.end + 1
Mergeable(r, last) == r.start <= last.end + 1

\* the loop over the sorted ranges
RECURSIVE MergeRanges(_, _)
MergeRanges(merged, ranges) ==
    IF ranges = <<>> THEN merged
    ELSE LET r == ranges[1]
             n == Len(merged)
         IN  IF n > 0 /\ Mergeable(r, merged[n])
             THEN MergeRanges(
                    [merged EXCEPT ![n].end = IF r.end > @ THEN r.end ELSE @],
                    Tail(ranges))
             ELSE MergeRanges(Append(merged, r), Tail(ranges))

\* PauseMatcher::pause_block_ranges / ResumeMatcher::resume_block_ranges
BlockRanges(text, markers) ==
    LET ranges == MatchRanges(text, markers, 1)
    IN  MergeRanges(<<>>, SortByKey(ranges, [k \in 1..Len(ranges) |-> ranges[k].start]))

\* EventMatcher::capture, each event with the start of its span
Capture(text, markers, label) ==
    LET ranges == BlockRanges(text, markers)
    IN  [k \in 1..Len(ranges) |->
            [pos |-> ranges[k].start,
             item |-> DyehLogItem(<<>>, <<>>, <<>>, <<>>, label, label)]]

\* parse_structured of that crate: the timestamp goes to time
DyehParseStructured(block) ==
    IF block # <<>> /\ block[1] = "D"
    THEN LET raw_content == Trim(SubSeq(block, SkipFrom(block, 2, Whitespace),
                                        Len(block)))
         IN  <<DyehLogItem(<<"D">>, <<>>, <<>>, <<>>, raw_content, raw_content)>>
    ELSE <<>>

DyehItemOfWindow(body, s, e) ==
    LET got == DyehParseStructured(SubSeq(body, s, e - 1))
    IN  IF got = <<>> THEN <<>>
        ELSE LET h == SplitHeader(got[1].content)
             IN  <<[pos |-> OffsetOf(body, s),
                    item |-> DyehLogItem(got[1].time, h.level, h.origin, h.tag,
                                         h.msg, got[1].raw_content)]>>

RECURSIVE DyehItemsOfWindows(_, _, _)
DyehItemsOfWindows(body, starts, k) ==
    IF k >= Len(starts) THEN <<>>
    ELSE DyehItemOfWindow(body, starts[k], starts[k + 1])
         \o DyehItemsOfWindows(body, starts, k + 1)

\* the pairs in the order they were pushed: events first, then items
PushOrder(positioned) == positioned

\* positioned.sort_by_key(|(pos, _)| *pos)
SortPositioned(positioned) ==
    SortByKey(positioned, [k \in 1..Len(positioned) |-> positioned[k].pos])

\* steps 1 to 4 of process_delta: the (pos, item) pairs in final order
DyehPositioned(d) ==
    LET body == CleanBody(d)
        starts == ItemStarts(body, 1)
        events == Capture(body, PauseMarkers, PAUSED)
                  \o Capture(body, ResumeMarkers, RESUMED)
        items == IF starts = <<>> THEN <<>>
                 ELSE DyehItemsOfWindows(body, Append(starts, Len(body) + 1), 1)
    IN  IF body = <<>> THEN <<>> ELSE SortPositioned(events \o items)

\* process_delta of lazylog-dyeh
DyehProcessDelta(d) ==
    LET positioned == DyehPositioned(d)
    IN  [k \in 1..Len(positioned) |-> positioned[k].item]

----------------------------------------------------------------------------
(* The decoders: LogParser::parse of AndroidParser, AndroidEffectParser    *)
(* (lazylog-android/parser.rs), IosFullParser and IosEffectParser          *)
(* (lazylog-ios/parser.rs).  Some(item) is <<item>>, None is <<>>.         *)

\* the tokens that start with "[" and those that end with "]"
OpensLine == {"[", "T", "AE"}

EndsLine == {"]", "T", "AE"}

\* str::lines: split at "\n"; a final empty piece is not a line
RECURSIVE SplitLines(_)
SplitLines(s) ==
    IF s = <<>> THEN <<>>
    ELSE LET nl == IndexFrom(s, 1, {"\n"})
         IN  <<SubSeq(s, 1, nl - 1)>> \o SplitLines(SubSeq(s, nl + 1, Len(s)))

\* [..].join("\n")
RECURSIVE JoinLines(_)
JoinLines(ls) ==
    IF ls = <<>> THEN <<>>
    ELSE IF Len(ls) = 1 THEN ls[1]
    ELSE ls[1] \o <<"\n">> \o JoinLines(Tail(ls))

\* the tag of a bracketed first line: the text behind the first "/" of the
\* header, trimmed.  Of the tokens only "AE" holds a "/"; the tag is
\* "[Effect]" when that token ends the line and longer text otherwise
\* (<<>> stands for "no slash").
AndroidTag(first_line) ==
    LET ae == IndexFrom(first_line, 1, {"AE"})
    IN  IF ae > Len(first_line) THEN <<>>
        ELSE IF ae = Len(first_line) THEN <<"[Effect]">>
        ELSE <<"[Effect]", " ", "]">> \o SubSeq(first_line, ae + 1, Len(first_line) - 1)

\* AndroidParser::parse
AndroidParse(raw_log) ==
    LET lines == SplitLines(raw_log)
        first_line == lines[1]
        bracketed == /\ first_line # <<>>
                     /\ first_line[1] \in OpensLine
                     /\ first_line[Len(first_line)] \in EndsLine
        tag == AndroidTag(first_line)
        message == JoinLines(Tail(lines))
    IN  IF lines = <<>> THEN <<>>
        ELSE IF ~bracketed \/ tag = <<>>
        THEN <<NewLogItem(raw_log, raw_log)>>
        ELSE <<WithMetadata(WithMetadata(NewLogItem(message, raw_log),
                                         "level", <<"U">>), "tag", tag)>>

\* STRUCTURED_MARKER_RE.is_match
HasStructuredMarker(raw_log) == \E i \in 1..Len(raw_log) : raw_log[i] = "D"

AllowedTags == {<<"[Effect]">>, <<"CKE-Editor">>}

\* AndroidEffectParser::parse
AndroidEffectParse(raw_log) ==
    LET parsed_full == AndroidParse(raw_log)
    IN  IF parsed_full = <<>> THEN <<>>
        ELSE IF GetMetadata(parsed_full[1], "tag") \notin AllowedTags THEN <<>>
        ELSE IF ~HasStructuredMarker(raw_log) THEN <<>>
        ELSE LET log_items == ProcessDelta(parsed_full[1].content)
             IN  IF log_items # <<>> THEN <<log_items[1]>> ELSE <<>>

\* the number of " " bytes in a token
SpacesIn(c) ==
    CASE c = " " -> 1
      [] c = "D" -> 2
      [] c = "T" -> 2
      [] c = "AE" -> 5
      [] c = "IW" -> 4
      [] OTHER -> 0

RECURSIVE SpacesUpTo(_, _)
SpacesUpTo(s, i) == IF i = 0 THEN 0 ELSE SpacesUpTo(s, i - 1) + SpacesIn(s[i])

\* IosFullParser::parse.  splitn(5, ' ') gives five parts when the text has
\* four spaces.  With the wrapper "IW" in front the parts are the date, the
\* process "EffectCam[6923]" and "<Notice>: ..."; in any other text the
\* fifth part has no "<", and it is taken from the token behind the one
\* that holds the fourth space.
IosFullParse(raw_log) ==
    LET n == Len(raw_log)
        fourth == IF SpacesUpTo(raw_log, n) < 4 THEN 0
                  ELSE CHOOSE i \in 1..n :
                         /\ SpacesUpTo(raw_log, i) >= 4
                         /\ SpacesUpTo(raw_log, i - 1) < 4
        rest == SubSeq(raw_log, fourth + 1, n)
    IN  IF fourth = 0 THEN <<NewLogItem(raw_log, raw_log)>>
        ELSE IF raw_log[1] = "IW"
        THEN <<WithMetadata(WithMetadata(NewLogItem(Trim(rest), raw_log),
                                         "level", <<"Notice">>),
                            "tag", <<"EffectCam">>)>>
        ELSE <<NewLogItem(rest, raw_log)>>

\* IosEffectParser::strip_ios_wrapper: the text behind the first ">: "
StripIosWrapper(ios_log) ==
    LET iw == IndexFrom(ios_log, 1, {"IW"})
    IN  IF iw > Len(ios_log) THEN <<>>
        ELSE <<SubSeq(ios_log, iw + 1, Len(ios_log))>>

\* IosEffectParser::parse
IosEffectParse(raw_log) ==
    IF ~HasStructuredMarker(raw_log) THEN <<>>
    ELSE LET inner == StripIosWrapper(raw_log)
         IN  IF inner = <<>> THEN <<>>
             ELSE LET log_items == ProcessDelta(inner[1])
                  IN  IF log_items # <<>> THEN <<log_items[1]>> ELSE <<>>

Decoders == {"AndroidParser", "AndroidEffectParser", "IosFullParser", "IosEffectParser"}

Parse(decoder, raw_log) ==
    CASE decoder = "AndroidParser" -> AndroidParse(raw_log)
      [] decoder = "AndroidEffectParser" -> AndroidEffectParse(raw_log)
      [] decoder = "IosFullParser" -> IosFullParse(raw_log)
      [] decoder = "IosEffectParser" -> IosEffectParse(raw_log)

----------------------------------------------------------------------------
(* Texts are put together from chunks and handed to the reassemblers and   *)
(* to the decoders.                                                        *)

\* chunks of a delta of the monitored log file: a line of text, an empty
\* line, a line with the pause call, the bare word, the resume call, an
\* item delimiter
EventChunks ==
    {<<"l", "\n">>, <<"\n">>, <<"P", "\n">>, <<"OP">>, <<"R">>, <<"D">>}

\* chunks of a raw log of a device: the wrappers, an item delimiter, a
\* header with an upper-case level, one with a lower-case level, one whose
\* origin and tag are blank, plain text, a line break, an inline header
DecoderChunks ==
    {<<"AE", "\n">>, <<"IW">>, <<"D">>,
     <<" ", "[", "l", "]", " ", "U", " ", "#", "#", " ", "[", "l", "]", "l">>,
     <<" ", "[", "l", "]", " ", "l", " ", "#", "#", " ", "[", "l", "]", "l">>,
     <<"[", " ", "]", "U", "#", "#", "[", " ", "]">>,
     <<" ", "l">>, <<"\n">>, <<"T", " ">>}

RECURSIVE Flatten(_)
Flatten(ss) == IF ss = <<>> THEN <<>> ELSE ss[1] \o Flatten(Tail(ss))

\* the text the chunks make up
Delta == Flatten(chunks)

\* one more chunk arrives
AppendChunk(c, max) ==
    /\ parsed.op = "none"
    /\ Len(chunks) < max
    /\ chunks' = Append(chunks, c)
    /\ UNCHANGED parsed

\* lazylog_parser::process_delta(delta)
CallProcessDelta ==
    /\ parsed.op = "none"
    /\ parsed' = [op |-> "process_delta", input |-> Delta,
                  body |-> CleanBody(Delta), entries |-> ProcessDelta(Delta)]
    /\ UNCHANGED chunks

\* process_delta(delta) of the reassembler with special events
CallDyehProcessDelta ==
    /\ parsed.op = "none"
    /\ parsed' = [op |-> "dyeh_process_delta", input |-> Delta,
                  body |-> CleanBody(Delta),
                  positioned |-> DyehPositioned(Delta),
                  entries |-> DyehProcessDelta(Delta)]
    /\ UNCHANGED chunks

\* parser.parse(raw_log) of one of the decoders
CallParse(decoder) ==
    /\ parsed.op = "none"
    /\ parsed' = [op |-> decoder, input |-> Delta, result |-> Parse(decoder, Delta)]
    /\ UNCHANGED chunks

otherVars == <<pipeVars, appVars, engineVars, hist, viewVars, decoderVars,
               sourceVars>>

NextReassembler ==
    /\ UNCHANGED otherVars
    /\ \/ \E c \in EventChunks : AppendChunk(c, MaxEventChunks)
       \/ CallProcessDelta
       \/ CallDyehProcessDelta

SpecReassembler == Init /\ [][NextReassembler]_vars

NextDecoders ==
    /\ UNCHANGED otherVars
    /\ \/ \E c \in DecoderChunks : AppendChunk(c, MaxDecoderChunks)
       \/ CallProcessDelta
       \/ \E decoder \in Decoders : CallParse(decoder)

SpecDecoders == Init /\ [][NextDecoders]_vars

----------------------------------------------------------------------------
(* The detail-level functions on their whole domain: SpecDetailLevel calls
   increment_detail_level or decrement_detail_level once, with any u8
   arguments, and records the call in parsed. *)

LogDetailLevel == 0..U8Max

\* increment_detail_level(level, max)
CallIncrementDetailLevel(level, max) ==
    /\ parsed.op = "none"
    /\ parsed' = [op |-> "increment_detail_level", level |-> level, max |-> max,
                  result |-> IncrementDetailLevel(level, max)]
    /\ UNCHANGED chunks

\* decrement_detail_level(level)
CallDecrementDetailLevel(level) ==
    /\ parsed.op = "none"
    /\ parsed' = [op |-> "decrement_detail_level", level |-> level,
                  result |-> DecrementDetailLevel(level)]
    /\ UNCHANGED chunks

\* one call per behaviour: nothing follows the recorded call
NextDetailLevel ==
    /\ parsed.op = "none"
    /\ UNCHANGED otherVars
    /\ \/ \E level, max \in LogDetailLevel : CallIncrementDetailLevel(level, max)
       \/ \E level \in LogDetailLevel : CallDecrementDetailLevel(level)

SpecDetailLevel == Init /\ [][NextDetailLevel]_vars

----------------------------------------------------------------------------
(* content_line_maker: content_into_lines and its helpers.  A content is a
   sequence of chars; "eacute" is a char of two bytes, "\r" a control char,
   "ESC" the escape char that opens an ANSI sequence.  SpecLines builds a
   content char by char and calls content_into_lines once. *)

MaxContentLen == 5

MaxWidth == 4

ContentChars == {"a", "eacute", "\n", "\r", "ESC", "["}

\* char::is_control
ControlChars == {"\n", "\r", "ESC"}

\* char::is_ascii_alphabetic
AsciiAlphabetic == {"a"}

\* char::len_utf8
LenUtf8(ch) == IF ch = "eacute" THEN 2 ELSE 1

\* String::len: the length in bytes
RECURSIVE ByteLen(_)
ByteLen(s) == IF s = <<>> THEN 0 ELSE LenUtf8(Head(s)) + ByteLen(Tail(s))

\* the index behind an ANSI sequence whose parameters start at i: chars are
\* skipped up to and including the first ASCII letter
AfterAnsiSequence(s, i) == Min(IndexFrom(s, i, AsciiAlphabetic) + 1, Len(s) + 1)

RECURSIVE SanitizeFrom(_, _)
SanitizeFrom(s, i) ==
    IF i > Len(s) THEN <<>>
    ELSE IF s[i] = "ESC"
         THEN IF i < Len(s) /\ s[i + 1] = "["
              THEN SanitizeFrom(s, AfterAnsiSequence(s, i + 2))
              ELSE SanitizeFrom(s, i + 1)
    ELSE IF s[i] \in ControlChars /\ s[i] # "\n"
         THEN SanitizeFrom(s, i + 1)
    ELSE <<s[i]>> \o SanitizeFrom(s, i + 1)

SanitizeControlChars(s) == SanitizeFrom(s, 1)

\* content.lines().map(..).collect()
ContentToUnwrappedLines(content) == SplitLines(content)

\* first_line.chars().count()
CharsCount(s) == Len(s)

\* first_line.chars().take(n)
Take(s, n) == SubSeq(s, 1, Min(n, Len(s)))

\* usize::saturating_sub
SaturatingSub(a, b) == IF a < b THEN 0 ELSE a - b

TruncateContent(content, width) ==
    IF width = 0 THEN <<>>
    ELSE LET first_line == IF SplitLines(content) = <<>> THEN <<>>
                           ELSE SplitLines(content)[1]
         IN  IF CharsCount(first_line) <= width
             THEN first_line
             ELSE Take(first_line, SaturatingSub(width, 2)) \o <<".", ".">>

\* the for loop of wrap_content_to_lines from char i on, and the push of
\* the unfinished line behind it
RECURSIVE WrapFrom(_, _, _, _, _)
WrapFrom(content, i, width, lines, current_line) ==
    IF i > Len(content)
    THEN IF current_line # <<>> THEN Append(lines, current_line) ELSE lines
    ELSE IF content[i] = "\n"
         THEN WrapFrom(content, i + 1, width, Append(lines, current_line), <<>>)
    ELSE IF ByteLen(Append(current_line, content[i])) = width
         THEN WrapFrom(content, i + 1, width,
                       Append(lines, Append(current_line, content[i])), <<>>)
    ELSE WrapFrom(content, i + 1, width, lines, Append(current_line, content[i]))

WrapContentToLines(content, width) ==
    IF width = 0 THEN <<>> ELSE WrapFrom(content, 1, width, <<>>, <<>>)

WrappingMode == {"Wrapped", "Unwrapped", "Truncated"}

ContentIntoLines(content, width, wrapping_mode) ==
    LET sanitized == SanitizeControlChars(content)
    IN  CASE wrapping_mode = "Wrapped" -> WrapContentToLines(sanitized, width)
          [] wrapping_mode = "Unwrapped" -> ContentToUnwrappedLines(sanitized)
          [] wrapping_mode = "Truncated" -> <<TruncateContent(sanitized, width)>>

\* content_into_lines(content, width, wrapping_mode)
CallContentIntoLines(width, wrapping_mode) ==
    /\ parsed.op = "none"
    /\ parsed' = [op |-> "content_into_lines", mode |-> wrapping_mode,
                  content |-> Delta, sanitized |-> SanitizeControlChars(Delta),
                  width |-> width,
                  lines |-> ContentIntoLines(Delta, width, wrapping_mode)]
    /\ UNCHANGED chunks

NextLines ==
    /\ UNCHANGED otherVars
    /\ \/ \E ch \in ContentChars : AppendChunk(<<ch>>, MaxContentLen)
       \/ \E width \in 0..MaxWidth, mode \in WrappingMode :
             CallContentIntoLines(width, mode)

SpecLines == Init /\ [][NextLines]_vars

----------------------------------------------------------------------------
(* decode_syslog (lazylog-ios/src/decoder.rs).  A line is a sequence of    *)
(* bytes; the build either checks integer overflow (debug) or wraps        *)
(* (release).                                                              *)

\* chunks of a syslog line handed to decode_syslog
MaxLineChunks == 5

BACKSLASH == 92

M == 77

DASH == 45

CARET == 94

NUM == 48

\* what lines are made of: \, M, ^, -, the digit 1, the letter a, and the
\* two-byte character e-acute
LineChunks == {<<BACKSLASH>>, <<M>>, <<CARET>>, <<DASH>>, <<49>>, <<97>>, <<195, 169>>}

\* (byte & 0xf0) == NUM
IsDigit(byte) == (byte \div 16) * 16 = NUM

\* ((x & 0x3) << 6) | ((y & 0x7) << 3) | (z & 0x7)
DecodeOctal(x, y, z) == (x % 4) * 64 + (y % 8) * 8 + (z % 8)

\* bytes[k] of the slice, k counted from 0
ByteAt(bytes, k) == bytes[k + 1]

\* a continuation byte of UTF-8 in lo..hi at position k
ContinuationAt(bytes, k, lo, hi) ==
    k < Len(bytes) /\ ByteAt(bytes, k) >= lo /\ ByteAt(bytes, k) <= hi

\* String::from_utf8 accepts the bytes from position k on
RECURSIVE Utf8ValidFrom(_, _)
Utf8ValidFrom(bytes, k) ==
    IF k >= Len(bytes) THEN TRUE
    ELSE LET b == ByteAt(bytes, k)
         IN  IF b < 128 THEN Utf8ValidFrom(bytes, k + 1)
             ELSE IF b >= 194 /\ b <= 223
             THEN ContinuationAt(bytes, k + 1, 128, 191) /\ Utf8ValidFrom(bytes, k + 2)
             ELSE IF b >= 224 /\ b <= 239
             THEN /\ ContinuationAt(bytes, k + 1, IF b = 224 THEN 160 ELSE 128,
                                                  IF b = 237 THEN 159 ELSE 191)
                  /\ ContinuationAt(bytes, k + 2, 128, 191)
                  /\ Utf8ValidFrom(bytes, k + 3)
             ELSE IF b >= 240 /\ b <= 244
             THEN /\ ContinuationAt(bytes, k + 1, IF b = 240 THEN 144 ELSE 128,
                                                  IF b = 244 THEN 143 ELSE 191)
                  /\ ContinuationAt(bytes, k + 2, 128, 191)
                  /\ ContinuationAt(bytes, k + 3, 128, 191)
                  /\ Utf8ValidFrom(bytes, k + 4)
             ELSE FALSE

\* the thread panics
Panic(message) == [panic |-> message, out |-> <<>>]

\* the guard `i > bytes.len() - 4` evaluated as `i + 4 > bytes.len()`
PastMappedFormChecked(len, i, overflow_checks) ==
    [panic |-> "none", value |-> i + 4 > len]

\* the guard `i > bytes.len() - 4` on usize: a length below 4 panics in a
\* build with overflow checks and wraps to a value no index exceeds in a
\* build without
PastMappedForm(len, i, overflow_checks) ==
    IF len < 4
    THEN IF overflow_checks
         THEN [panic |-> "attempt to subtract with overflow", value |-> FALSE]
         ELSE [panic |-> "none", value |-> FALSE]
    ELSE [panic |-> "none", value |-> i > len - 4]

\* the while loop of decode_syslog from index i on, with out as pushed so far
RECURSIVE DecodeFrom(_, _, _, _)
DecodeFrom(bytes, i, out, overflow_checks) ==
    LET len == Len(bytes)
        copy == DecodeFrom(bytes, i + 1, Append(out, ByteAt(bytes, i)), overflow_checks)
        push(b) == DecodeFrom(bytes, i + 4, Append(out, b), overflow_checks)
        oob == Panic("index out of bounds")
        \* is_digit(bytes[i + 1]) && is_digit(bytes[i + 2]) && is_digit(bytes[i + 3])
        digits ==
            IF ~IsDigit(ByteAt(bytes, i + 1)) THEN copy
            ELSE IF i + 2 >= len THEN oob
            ELSE IF ~IsDigit(ByteAt(bytes, i + 2)) THEN copy
            ELSE IF i + 3 >= len THEN oob
            ELSE IF ~IsDigit(ByteAt(bytes, i + 3)) THEN copy
            ELSE push(DecodeOctal(ByteAt(bytes, i + 1), ByteAt(bytes, i + 2),
                                  ByteAt(bytes, i + 3)))
        past == PastMappedForm(len, i, overflow_checks)
    IN  IF i >= len THEN [panic |-> "none", out |-> out]
        ELSE IF ByteAt(bytes, i) # BACKSLASH THEN copy
        ELSE IF past.panic # "none" THEN Panic(past.panic)
        ELSE IF past.value THEN copy
        ELSE IF i + 1 >= len THEN oob
        ELSE IF ByteAt(bytes, i + 1) # M THEN digits
        ELSE IF i + 2 >= len THEN oob
        ELSE IF ByteAt(bytes, i + 2) = CARET
        THEN IF i + 3 >= len THEN oob
             ELSE push((ByteAt(bytes, i + 3) % 128) + 64)
        ELSE IF ByteAt(bytes, i + 2) = DASH
        THEN IF i + 3 >= len THEN oob
             ELSE push(IF ByteAt(bytes, i + 3) < 128 THEN ByteAt(bytes, i + 3) + 128
                       ELSE ByteAt(bytes, i + 3))
        ELSE digits

\* decode_syslog(line): the loop, then String::from_utf8(out) or the line
DecodeSyslog(line, overflow_checks) ==
    LET r == DecodeFrom(line, 0, <<>>, overflow_checks)
    IN  IF r.panic # "none" THEN [panic |-> r.panic, text |-> <<>>]
        ELSE [panic |-> "none",
              text |-> IF Utf8ValidFrom(r.out, 0) THEN r.out ELSE line]

\* decode_syslog(line) in a build with or without overflow checks
CallDecodeSyslog(overflow_checks) ==
    /\ parsed.op = "none"
    /\ parsed' = [op |-> "decode_syslog", line |-> Delta,
                  overflow_checks |-> overflow_checks,
                  result |-> DecodeSyslog(Delta, overflow_checks)]
    /\ UNCHANGED chunks

NextSyslog ==
    /\ UNCHANGED otherVars
    /\ \/ \E c \in LineChunks : AppendChunk(c, MaxLineChunks)
       \/ \E overflow_checks \in BOOLEAN : CallDecodeSyslog(overflow_checks)

SpecSyslog == Init /\ [][NextSyslog]_vars

----------------------------------------------------------------------------
(* DyehLogProvider (lazylog-dyeh/src/provider.rs) tailing the log files of *)
(* a directory that other processes write.  The metadata module is not in  *)
(* src/: a MetaSnap is taken to be the length of the file with a stamp     *)
(* that every write changes, and has_changed to compare the two snapshots. *)

\* the longest a log file gets
MaxFileLen == 3

\* writes to the directory: creations, appends, truncations
MaxWrites == 4

\* calls of poll_logs
MaxPolls == 3

\* the file system after a write that leaves file f as file
Written(f, file) ==
    [dyeh EXCEPT !.files[f] = file, !.writes = @ + 1]

\* a log file appears and is the latest live log from now on
CreateFile(f) ==
    /\ dyeh.writes < MaxWrites
    /\ ~dyeh.files[f].exists
    /\ dyeh' = [Written(f, [exists |-> TRUE, len |-> 0, version |-> dyeh.writes + 1])
                    EXCEPT !.latest = f]

\* n bytes are appended to file f
AppendBytes(f, n) ==
    /\ dyeh.writes < MaxWrites
    /\ dyeh.files[f].exists
    /\ dyeh.files[f].len + n <= MaxFileLen
    /\ dyeh' = Written(f, [exists |-> TRUE, len |-> dyeh.files[f].len + n,
                           version |-> dyeh.writes + 1])

\* file f is cut down to len bytes
TruncateFile(f, len) ==
    /\ dyeh.writes < MaxWrites
    /\ dyeh.files[f].exists
    /\ len < dyeh.files[f].len
    /\ dyeh' = Written(f, [exists |-> TRUE, len |-> len, version |-> dyeh.writes + 1])

\* metadata::stat_path
StatPath(file) == [len |-> file.len, version |-> file.version]

\* metadata::has_changed
HasChanged(prev_meta, current_meta) ==
    prev_meta = <<>> \/ prev_meta[1] # current_meta

\* check_for_newer_log_file: <<>> or <<the file to switch to>>
CheckForNewerLogFile(p) ==
    IF p.latest = "none" THEN <<>>
    ELSE IF p.log_file_path = "none" THEN <<p.latest>>
    ELSE IF p.latest # p.log_file_path THEN <<p.latest>>
    ELSE <<>>

\* switch_to_log_file
SwitchToLogFile(p, new_file_path) ==
    [p EXCEPT !.log_file_path = new_file_path, !.last_len = 0, !.prev_meta = <<>>,
              !.returned = {}]

\* self.log_file_path.exists()
PathExists(p) == p.log_file_path # "none" /\ p.files[p.log_file_path].exists

\* the rest of poll_logs once the metadata differ: the truncation check,
\* read_delta over [last_len, len) if the file is longer, and the new
\* last_len and prev_meta.  read_ok is whether read_delta returned Ok.
ReadGrowth(p, current_meta, n, read_ok) ==
    LET from == IF current_meta.len < p.last_len THEN 0 ELSE p.last_len
        range == from..(current_meta.len - 1)
        kept == IF current_meta.len < p.last_len THEN {} ELSE p.returned
    IN  IF current_meta.len > from
        THEN [p EXCEPT !.last_len = current_meta.len,
                       !.prev_meta = <<current_meta>>,
                       !.returned = IF read_ok THEN kept \cup range ELSE kept,
                       !.twice = @ \/ (read_ok /\ kept \cap range # {}),
                       !.poll = [n |-> n, saw |-> <<current_meta.len>>, from |-> from,
                                 read |-> IF read_ok THEN <<from, current_meta.len>>
                                          ELSE <<>>]]
        ELSE [p EXCEPT !.last_len = from,
                       !.prev_meta = <<current_meta>>,
                       !.returned = kept,
                       !.poll = [n |-> n, saw |-> <<current_meta.len>>, from |-> from,
                                 read |-> <<>>]]

\* poll_logs from the check of the path on
PollCurrentFile(p, n, stat_ok, read_ok) ==
    LET nothing == [p EXCEPT !.poll = [n |-> n, saw |-> <<>>, from |-> p.last_len,
                                       read |-> <<>>]]
    IN  IF ~PathExists(p) THEN nothing
        ELSE IF ~stat_ok THEN nothing
        ELSE IF ~HasChanged(p.prev_meta, StatPath(p.files[p.log_file_path]))
        THEN nothing
        ELSE ReadGrowth(p, StatPath(p.files[p.log_file_path]), n, read_ok)

\* DyehLogProvider::poll_logs; stat_ok and read_ok are what the file system
\* answers to stat_path and to read_delta's File::open and map
DyehPollLogs(stat_ok, read_ok) ==
    /\ dyeh.poll.n < MaxPolls
    /\ dyeh' = PollCurrentFile(
                   IF CheckForNewerLogFile(dyeh) # <<>>
                   THEN SwitchToLogFile(dyeh, CheckForNewerLogFile(dyeh)[1])
                   ELSE dyeh,
                   dyeh.poll.n + 1, stat_ok, read_ok)

tailOtherVars == <<pipeVars, appVars, engineVars, hist, parseVars, viewVars,
                   decoderVars, android>>

NextTail ==
    /\ UNCHANGED tailOtherVars
    /\ \/ \E f \in FileNames : CreateFile(f)
       \/ \E f \in FileNames, n \in 1..MaxFileLen : AppendBytes(f, n)
       \/ \E f \in FileNames, len \in 0..(MaxFileLen - 1) : TruncateFile(f, len)
       \/ \E stat_ok, read_ok \in BOOLEAN : DyehPollLogs(stat_ok, read_ok)

SpecTail == Init /\ [][NextTail]_vars

----------------------------------------------------------------------------
(* AndroidLogProvider (lazylog-android/src/provider.rs): the thread that   *)
(* owns the provider calls start, poll_logs and stop; the reader thread    *)
(* runs run_adb_logcat.  A Mutex is free or held by one of the two, and    *)
(* lock() is a step that waits until it is free.                           *)

\* lines the device emits
MaxLines == 2

\* adb processes the reader spawns
MaxSpawns == 2

\* non-empty results of poll_logs that are counted
MaxCountedPolls == 2

\* the provider after the reader moved to the place at
ReaderAt(at) == [android EXCEPT !.reader = at]

\* the buffer lock and the Vec after `buffer.drain(..)` returned everything
\* and the guard was dropped
DrainKeepingLines(buffer) == [returned |-> buffer, left |-> buffer]

\* buffer.drain(..).collect()
Drain(buffer) == [returned |-> buffer, left |-> <<>>]

\* who holds the child mutex when stop() goes on to join while keeping it
HeldAcrossJoin == "main"

\* who holds the child mutex after the if-let of stop(): the guard is
\* dropped with the statement
AfterKillSection == "free"

\* start(): the thread is spawned and its handle kept; Runtime::new fails
\* in the thread or run_adb_logcat begins
Start(runtime_ok) ==
    /\ android.main = "new"
    /\ android' = [android EXCEPT !.main = "started", !.thread_handle = TRUE,
                                  !.reader = IF runtime_ok THEN "top" ELSE "done"]

\* poll_logs: self.log_buffer.lock()
PollLock ==
    /\ android.main = "started"
    /\ android.lock_buffer = "free"
    /\ android' = [android EXCEPT !.main = "poll_locked", !.lock_buffer = "main"]

\* poll_logs: drain, return, the guard is dropped
PollDrain ==
    /\ android.main = "poll_locked"
    /\ android' = [android EXCEPT
          !.main = "started",
          !.lock_buffer = "free",
          !.log_buffer = Drain(android.log_buffer).left,
          !.polled = @ \o Drain(android.log_buffer).returned,
          !.polls = IF android.log_buffer # <<>> /\ @ < MaxCountedPolls
                    THEN @ + 1 ELSE @]

\* stop(): self.should_stop.lock()
StopLockFlag ==
    /\ android.main = "started"
    /\ android.lock_stop = "free"
    /\ android' = [android EXCEPT !.main = "stop_flag", !.lock_stop = "main",
                                  !.stop_phase = android.reader]

\* stop(): *stop = true
StopSetFlag ==
    /\ android.main = "stop_flag"
    /\ android' = [android EXCEPT !.main = "stop_child", !.lock_stop = "free",
                                  !.should_stop = TRUE]

\* stop(): child_mutex.lock()
StopLockChild ==
    /\ android.main = "stop_child"
    /\ android.lock_child = "free"
    /\ android' = [android EXCEPT !.main = "stop_kill", !.lock_child = "main"]

\* the process after a kill: a running one is killed, a gone one stays so
Killed(children, k) ==
    [children EXCEPT ![k] = IF @ = "running" THEN "killed" ELSE @]

\* stop(): child.start_kill() if a child is registered
StopKill ==
    /\ android.main = "stop_kill"
    /\ android' = [android EXCEPT
          !.main = "join",
          !.lock_child = AfterKillSection,
          !.children = IF android.child_process = <<>> THEN @
                       ELSE Killed(@, android.child_process[1])]

\* stop(): handle.join() returns once the thread has finished
StopJoin ==
    /\ android.main = "join"
    /\ android.reader = "done"
    /\ android' = [android EXCEPT !.main = "stopped", !.thread_handle = FALSE]

\* run_adb_logcat, top of the outer loop: should_stop.lock()
ReaderLockFlag ==
    /\ android.reader \in {"top", "stream_top"}
    /\ android.lock_stop = "free"
    /\ android' = [android EXCEPT !.lock_stop = "reader",
                                  !.reader = IF @ = "top" THEN "top_locked"
                                             ELSE "stream_locked"]

\* the flag is read before a connection is attempted
ReaderCheckStop ==
    /\ android.reader = "top_locked"
    /\ android' = [android EXCEPT !.lock_stop = "free",
                                  !.reader = IF android.should_stop THEN "done"
                                             ELSE "spawn"]

\* Command::new("adb")...spawn()
ReaderSpawn(ok) ==
    /\ android.reader = "spawn"
    /\ ok => Len(android.children) < MaxSpawns
    /\ android' = IF ok
                  THEN [android EXCEPT !.children = Append(@, "running"),
                                       !.child = <<Len(android.children) + 1>>,
                                       !.reader = "settle"]
                  ELSE ReaderAt("done")

\* a running adb exits by itself: no device, or the device went away
ChildExits(k) ==
    /\ k \in 1..Len(android.children)
    /\ android.children[k] = "running"
    /\ android' = [android EXCEPT !.children[k] = "exited"]

\* tokio::time::sleep(100 ms) is over
ReaderSettled ==
    /\ android.reader = "settle"
    /\ android' = ReaderAt("try_wait")

\* child.try_wait(): the process has exited, is running, or its status
\* cannot be read because it is gone already
ReaderTryWait(status_ok) ==
    /\ android.reader = "try_wait"
    /\ ~status_ok => android.children[android.child[1]] # "running"
    /\ android' = IF ~status_ok THEN [ReaderAt("done") EXCEPT !.child = <<>>]
                  ELSE IF android.children[android.child[1]] # "running"
                  THEN [ReaderAt("retry_sleep") EXCEPT !.child = <<>>]
                  ELSE ReaderAt("register")

\* tokio::time::sleep(1 s) is over; continue
ReaderRetry ==
    /\ android.reader = "retry_sleep"
    /\ android' = ReaderAt("top")

\* child_process.lock() before the handle is stored, and in the clean-up
ReaderLockChild ==
    /\ android.reader \in {"register", "cleanup"}
    /\ android.lock_child = "free"
    /\ android' = [android EXCEPT !.lock_child = "reader",
                                  !.reader = IF @ = "register" THEN "register_locked"
                                             ELSE "cleanup_locked"]

\* *child_opt = Some(child)
ReaderRegister ==
    /\ android.reader = "register_locked"
    /\ android' = [android EXCEPT !.lock_child = "free",
                                  !.child_process = android.child,
                                  !.child = <<>>,
                                  !.reader = "stream_top"]

\* the flag is read at the top of the streaming loop
ReaderStreamCheckStop ==
    /\ android.reader = "stream_locked"
    /\ android' = [android EXCEPT !.lock_stop = "free",
                                  !.reader = IF android.should_stop THEN "cleanup"
                                             ELSE "next_line"]

\* timeout(100 ms, reader.next_line()): a line, the end of the stream or a
\* read error, or the timeout
ReaderNextLine(outcome) ==
    /\ android.reader = "next_line"
    /\ outcome = "line" => android.emitted < MaxLines
    /\ outcome = "end" =>
          (android.child_process # <<>> =>
              android.children[android.child_process[1]] # "running")
    /\ android' =
          IF outcome = "line"
          THEN [android EXCEPT !.emitted = @ + 1, !.log_line = <<android.emitted + 1>>,
                               !.reader = "push"]
          ELSE IF outcome = "timeout" THEN ReaderAt("stream_top")
          ELSE ReaderAt("cleanup")

\* log_buffer.lock()
ReaderLockBuffer ==
    /\ android.reader = "push"
    /\ android.lock_buffer = "free"
    /\ android' = [android EXCEPT !.lock_buffer = "reader", !.reader = "push_locked"]

\* buffer.push(log_line)
ReaderPush ==
    /\ android.reader = "push_locked"
    /\ android' = [android EXCEPT !.lock_buffer = "free",
                                  !.log_buffer = @ \o android.log_line,
                                  !.appended = @ \o android.log_line,
                                  !.log_line = <<>>,
                                  !.reader = "stream_top"]

\* child_opt.take()
ReaderTakeChild ==
    /\ android.reader = "cleanup_locked"
    /\ android' = [android EXCEPT !.lock_child = "free",
                                  !.child_to_kill = android.child_process,
                                  !.child_process = <<>>,
                                  !.reader = "kill"]

\* child.kill().await; child.wait().await; continue
ReaderKill ==
    /\ android.reader = "kill"
    /\ android' = [android EXCEPT
          !.children = IF android.child_to_kill = <<>> THEN @
                       ELSE Killed(@, android.child_to_kill[1]),
          !.child_to_kill = <<>>,
          !.reader = "top"]

\* a step of the reader thread
ReaderStep ==
    \/ ReaderLockFlag
    \/ ReaderCheckStop
    \/ \E ok \in BOOLEAN : ReaderSpawn(ok)
    \/ ReaderSettled
    \/ \E status_ok \in BOOLEAN : ReaderTryWait(status_ok)
    \/ ReaderRetry
    \/ ReaderLockChild
    \/ ReaderRegister
    \/ ReaderStreamCheckStop
    \/ \E outcome \in {"line", "end", "timeout"} : ReaderNextLine(outcome)
    \/ ReaderLockBuffer
    \/ ReaderPush
    \/ ReaderTakeChild
    \/ ReaderKill

\* poll_logs and stop() once they have begun
OwnerContinues ==
    \/ PollDrain
    \/ StopSetFlag
    \/ StopLockChild
    \/ StopKill
    \/ StopJoin

androidOtherVars == <<pipeVars, appVars, engineVars, hist, parseVars, viewVars,
                      decoderVars, dyeh>>

NextDevice ==
    /\ UNCHANGED androidOtherVars
    /\ \/ \E runtime_ok \in BOOLEAN : Start(runtime_ok)
       \/ PollLock
       \/ StopLockFlag
       \/ OwnerContinues
       \/ ReaderStep
       \/ \E k \in 1..MaxSpawns : ChildExits(k)

SpecDevice == Init /\ [][NextDevice]_vars

\* both threads are scheduled: a thread that can take a step takes one
FairSpecDevice ==
    /\ SpecDevice
    /\ WF_vars(UNCHANGED androidOtherVars /\ ReaderStep)
    /\ WF_vars(UNCHANGED androidOtherVars /\ OwnerContinues)

----------------------------------------------------------------------------
(* Claims about the ingestion pipeline *)

\* what the foreground has popped so far, in the order it holds it
Delivered == raw_logs \o new_logs

Ids(s) == [i \in 1..Len(s) |-> s[i].id]

\* C1: the ring buffer never holds more than its capacity, and a push
\* attempt is never made to wait: whenever the provider thread has an item
\* to push, the push step can be taken, whatever the consumer has done.
C1_OverflowNeverBlocks ==
    /\ Len(ring) <= RingCapacity
    /\ (pc = "push" => ENABLED PushItem)

\* more items were pushed than the buffer holds, nothing was ever popped,
\* and the producer has finished the batch
C1_Witness ==
    /\ Len(produced) > RingCapacity
    /\ Delivered = <<>>
    /\ Len(ring) = RingCapacity
    /\ dropped # <<>>
    /\ pc = "sleep"

\* C2: a push attempt that finds the ring buffer full discards exactly the
\* incoming item: the buffered items and their order stay as they were,
\* the thread goes on to the next raw string of the batch, and a discarded
\* item never reaches the buffer or the foreground.
C2_DropStep ==
    (pc = "push" /\ pc' # "push" /\ IsFull(ring)) =>
        /\ ring' = ring
        /\ dropped' = Append(dropped, pending[1])
        /\ pc' = "iter"
        /\ raw_batch' = raw_batch
        /\ ever_running'

C2_DroppedStayOut ==
    \A i \in 1..Len(dropped) :
        \A j \in 1..Len(ring \o Delivered) : (ring \o Delivered)[j] # dropped[i]

C3_FifoHandOff ==
    /\ IsSubseq(Delivered, produced)
    /\ NoDuplicates(Ids(Delivered))
    /\ IsSubseq(Delivered \o ring, produced)

\* three items delivered in two or more batches, with a gap where an item
\* was dropped
C3_Witness ==
    /\ Len(raw_logs) >= 3
    /\ dropped # <<>>
    /\ \E i \in 1..(Len(raw_logs) - 1) : raw_logs[i + 1].id > raw_logs[i].id + 1

\* C4: after a failed start() the thread has ended without running:
\* poll_logs() and stop() were never called and nothing was produced or
\* queued.
C4_FatalStart ==
    start_result = "err" =>
        /\ pc = "aborted"
        /\ ~ever_running
        /\ calls.poll = 0
        /\ calls.stop = 0
        /\ ring = <<>>
        /\ produced = <<>>
        /\ Delivered = <<>>

\* start() failed and the foreground has gone through its whole cleanup
C4_Witness ==
    /\ start_result = "err"
    /\ should_stop
    /\ fg = "exited"

\* C5: a poll_logs() error leaves the queue alone and leads to the sleep,
\* the loop head polls again unless the stop flag is set, and the thread
\* ends only after a failed start() or with the stop flag set.
C5_PollErrorStep ==
    (pc = "poll" /\ pc' # "poll" /\ last_poll' = "err") =>
        /\ pc' = "sleep"
        /\ ring' = ring
        /\ produced' = produced
        /\ pending' = pending
        /\ raw_batch' = raw_batch

C5_LoopStep ==
    /\ (pc = "sleep" /\ pc' # "sleep") => pc' = "loop"
    /\ (pc = "loop" /\ pc' # "loop" /\ ~should_stop) => pc' = "poll"

C5_EndsOnlyOnStopOrStart ==
    /\ pc \in {"stopping", "done"} => should_stop
    /\ pc = "aborted" => start_result = "err"

C6_Shutdown ==
    /\ [](calls.stop <= 1)
    /\ [](pc = "done" => calls.stop = 1)
    /\ ((should_stop /\ start_result = "ok") ~> (pc = "done" /\ calls.stop = 1))
    /\ ((fg = "join") ~> (fg = "exited"))

\* the loop had polled, stop() failed, and the join has returned
C6_Witness ==
    /\ pc = "done"
    /\ stop_result = "err"
    /\ calls.stop = 1
    /\ calls.poll >= 1
    /\ fg = "exited"

----------------------------------------------------------------------------
(* Claims about the FilterEngine *)

Elems(s) == {s[i] : i \in 1..Len(s)}

\* the latest two calls were plain filter calls on the same log list at the
\* same detail level (the list only grows, so equal length is equal list)
TwoFilterCalls ==
    /\ Len(hist) = 2
    /\ hist[1].op = "filter"
    /\ hist[2].op \in {"filter", "reset+filter"}
    /\ hist[1].len = hist[2].len
    /\ hist[1].d = hist[2].d

\* C7: when filter is called with query1 and then, on the same list and
\* detail level, with query1 extended by a suffix, the second index list
\* is a subset of the first.
C7_MonotonicFiltering ==
    (TwoFilterCalls /\ StartsWith(hist[1].query, hist[2].query)) =>
        Elems(hist[1].result) \subseteq Elems(hist[2].result)

\* C8: filter_new_logs called with the unchanged query after new items
\* arrived, following a call with that query on the list as it was before,
\* returns what a fresh engine's filter returns on the extended list.
C8_IncrementalEqualsFull ==
    (/\ Len(hist) = 2
     /\ hist[1].op = "filter_new_logs"
     /\ hist[1].old_count < hist[1].len
     /\ hist[2].query = hist[1].query
     /\ hist[2].d = hist[1].d
     /\ hist[2].len = hist[1].old_count) =>
        hist[1].result = FreshFilter(raw_logs, hist[1].query, hist[1].d)

\* C9: two filter calls in a row with the same list, query and detail level
\* return the same index list.
C9_Idempotence ==
    (TwoFilterCalls /\ hist[1].query = hist[2].query) =>
        hist[1].result = hist[2].result

\* C10: filter with the empty query returns every index in ascending order
\* and leaves the cache empty; a call with a non-empty query that follows a
\* call with the empty query scans the whole list.
C10_EmptyQuery ==
    /\ (hist # <<>> /\ hist[1].op = "filter" /\ hist[1].query = <<>>) =>
           /\ hist[1].result = Range(hist[1].len)
           /\ displaying_logs = Range(Len(raw_logs))
           /\ previous_query = <<>>
           /\ previous_results = <<>>
    /\ (Len(hist) = 2 /\ hist[2].query = <<>> /\ hist[1].query # <<>>) =>
           /\ hist[1].via = "full"
           /\ hist[1].space = Range(hist[1].len)

\* the empty query was applied to a non-empty list while the cache held a
\* non-empty result for a non-empty query
C10_Witness ==
    /\ Len(hist) = 2
    /\ hist[1].op = "filter"
    /\ hist[1].query = <<>>
    /\ hist[1].len >= 2
    /\ hist[2].query # <<>>
    /\ hist[2].result # <<>>
    /\ hist[2].via = "incremental"

\* C11: every index list a filter call returns, and every list
\* filter_new_logs returns when its previous count is the entry count of
\* the call that wrote the cache, is strictly ascending and stays below the
\* number of entries; the worker-pool path returns for the call's search
\* space the list the sequential path returns, in ascending order.
StrictlyAscending(s) == \A i \in 1..(Len(s) - 1) : s[i] < s[i + 1]

CacheCountAgrees ==
    \/ hist[1].op # "filter_new_logs"
    \/ IF Len(hist) = 2 THEN hist[2].len = hist[1].old_count
                        ELSE hist[1].old_count = 0

C12_DetailLevelInvalidation ==
    (hist # <<>> /\ hist[1].op = "reset+filter") =>
        /\ hist[1].d = detail_level
        /\ hist[1].query = GetFilterQuery(filter_input)
        /\ hist[1].via \in {"full", "empty"}
        /\ hist[1].via = "full" => hist[1].space = Range(Len(raw_logs))
        /\ displaying_logs = FreshFilter(raw_logs, GetFilterQuery(filter_input),
                                         detail_level)

\* the level changed under a query whose cached result was non-empty, and
\* the list at the new level holds an index the old list lacks
C12_Witness ==
    /\ Len(hist) = 2
    /\ hist[1].op = "reset+filter"
    /\ hist[2].op \in {"filter", "filter_new_logs"}
    /\ hist[1].query = hist[2].query
    /\ hist[1].query # <<>>
    /\ hist[2].result # <<>>
    /\ hist[1].d # hist[2].d
    /\ \E i \in Elems(hist[1].result) : i \notin Elems(hist[2].result)

----------------------------------------------------------------------------
(* Claims about the structured reassembler and the decoders *)

\* the indices of the tokens of text that are in S, ascending
RECURSIVE IndicesOf(_, _, _)
IndicesOf(text, S, from) ==
    LET i == IndexFrom(text, from, S)
    IN  IF i > Len(text) THEN <<>> ELSE <<i>> \o IndicesOf(text, S, i + 1)

IsEvent(item) == item.content \in {PAUSED, RESUMED}

\* the positions of the entries with this content
PositionsOf(positioned, label) ==
    {positioned[k].pos : k \in {j \in 1..Len(positioned) : positioned[j].item.content = label}}

CountOf(positioned, label) ==
    Cardinality({j \in 1..Len(positioned) : positioned[j].item.content = label})

\* C13: the entries process_delta returns, items and special events
\* together, are in non-decreasing order of the byte offset of the cleaned
\* body they come from: every item from the start of a delimiter, every
\* event from the start of a line that holds one of its markers.
C13_SegmentationOrdering ==
    parsed.op = "dyeh_process_delta" =>
        LET pos == parsed.positioned
            body == parsed.body
            delims == IndicesOf(body, {"D"}, 1)
            lineStarts(markers) ==
                {LineRange(body, i).start : i \in Elems(IndicesOf(body, markers, 1))}
        IN  /\ \A k \in 1..(Len(pos) - 1) : pos[k].pos <= pos[k + 1].pos
            /\ parsed.entries = [k \in 1..Len(pos) |-> pos[k].item]
            /\ \A k \in 1..Len(pos) :
                 CASE pos[k].item.content = PAUSED ->
                        pos[k].pos \in lineStarts(PauseMarkers)
                   [] pos[k].item.content = RESUMED ->
                        pos[k].pos \in lineStarts(ResumeMarkers)
                   [] OTHER ->
                        pos[k].pos \in {OffsetOf(body, delims[j]) : j \in 1..Len(delims)}
            /\ Cardinality({k \in 1..Len(pos) : ~IsEvent(pos[k].item)}) = Len(delims)

\* an event lies between two items although events are collected first
C13_Witness ==
    /\ parsed.op = "dyeh_process_delta"
    /\ Len(parsed.positioned) >= 3
    /\ ~IsEvent(parsed.entries[1])
    /\ IsEvent(parsed.entries[2])
    /\ ~IsEvent(parsed.entries[3])
    /\ parsed.positioned[1].pos < parsed.positioned[2].pos
    /\ parsed.positioned[2].pos < parsed.positioned[3].pos

\* the positions one matcher's entries must have: the line start of its
\* first marker, and of every marker whose line range starts more than one
\* byte behind the end of the line range of the marker before it
ExpectedEventStarts(body, markers) ==
    LET m == IndicesOf(body, markers, 1)
    IN  IF m = <<>> THEN {}
        ELSE {LineRange(body, m[1]).start}
             \cup {LineRange(body, m[k + 1]).start : k \in
                     {j \in 1..(Len(m) - 1) :
                        LineRange(body, m[j + 1]).start > LineRange(body, m[j]).end + 1}}

\* C14: within one matcher, marker occurrences whose line ranges overlap
\* or are at most one byte apart (the same line, directly adjacent lines)
\* give one synthetic entry at the start of the merged range; occurrences
\* further apart give separate entries.
C14_SpecialEventMerging ==
    parsed.op = "dyeh_process_delta" =>
        /\ PositionsOf(parsed.positioned, PAUSED)
             = ExpectedEventStarts(parsed.body, PauseMarkers)
        /\ CountOf(parsed.positioned, PAUSED)
             = Cardinality(ExpectedEventStarts(parsed.body, PauseMarkers))
        /\ PositionsOf(parsed.positioned, RESUMED)
             = ExpectedEventStarts(parsed.body, ResumeMarkers)
        /\ CountOf(parsed.positioned, RESUMED)
             = Cardinality(ExpectedEventStarts(parsed.body, ResumeMarkers))

\* three pause markers, the first two on adjacent lines, the third behind a
\* line of text: two entries
C14_Witness ==
    /\ parsed.op = "dyeh_process_delta"
    /\ LET m == IndicesOf(parsed.body, PauseMarkers, 1)
       IN  /\ Len(m) = 3
           /\ LineRange(parsed.body, m[2]).start = LineRange(parsed.body, m[1]).end
           /\ LineRange(parsed.body, m[3]).start > LineRange(parsed.body, m[2]).end + 1
    /\ CountOf(parsed.positioned, PAUSED) = 2

\* the byte offset at which line n of the body starts (lines from 1)
LineStartOffset(body, n) ==
    IF n = 1 THEN 0
    ELSE OffsetOf(body, IndicesOf(body, {"\n"}, 1)[n - 1] + 1)

\* the pause call on line 3, the bare word on line 5, no marker on line 4
PauseOnLines3And5 ==
    /\ parsed.op = "dyeh_process_delta"
    /\ LET lines == SplitLines(parsed.body)
       IN  /\ Len(lines) >= 5
           /\ "P" \in Elems(lines[3])
           /\ "OP" \in Elems(lines[5])
           /\ Elems(lines[4]) \cap (PauseMarkers \cup ResumeMarkers) = {}

\* one PAUSED entry covers lines 3 to 5: none starts at line 5
MergedOver3To5 ==
    /\ LineStartOffset(parsed.body, 5) \notin PositionsOf(parsed.positioned, PAUSED)
    /\ \E p \in PositionsOf(parsed.positioned, PAUSED) :
          p <= LineStartOffset(parsed.body, 3)

\* C15, as the specification states it: a pause call on line 3 and the
\* bare word onpause on line 5, with only line 4 between them, give one
\* merged PAUSED entry spanning lines 3 to 5.
C15_MergeAcrossLine == PauseOnLines3And5 => MergedOver3To5

\* C15, as the code has it: the two line ranges are merged into one PAUSED
\* entry exactly when line 4 is empty, so that they are one byte apart; a
\* line 4 with text in it leaves two separate PAUSED entries.
C15_MergeAcrossEmptyLine ==
    PauseOnLines3And5 =>
        IF SplitLines(parsed.body)[4] = <<>>
        THEN MergedOver3To5
        ELSE LineStartOffset(parsed.body, 5) \in PositionsOf(parsed.positioned, PAUSED)

C15_Witness ==
    /\ PauseOnLines3And5
    /\ SplitLines(parsed.body)[4] = <<>>
    /\ MergedOver3To5
    /\ CountOf(parsed.positioned, PAUSED) = 1

NoDelimiter(body) == \A i \in 1..Len(body) : body[i] # "D"

\* C16, as the specification states it: a delta whose cleaned body holds
\* no item delimiter yields an empty entry list, whatever else it holds.
C16_NoDelimiterNoEntries ==
    (parsed.op \in {"process_delta", "dyeh_process_delta"} /\ NoDelimiter(parsed.body))
        => parsed.entries = <<>>

\* C16, as the code has it: without a delimiter there is no item entry.
\* process_delta of lazylog-parser returns the empty list; the reassembler
\* with special events returns its synthetic entries and nothing else, so
\* its list is empty exactly when the body holds no marker either.
C16_NoDelimiterNoItems ==
    (parsed.op \in {"process_delta", "dyeh_process_delta"} /\ NoDelimiter(parsed.body)) =>
        /\ parsed.op = "process_delta" => parsed.entries = <<>>
        /\ parsed.op = "dyeh_process_delta" =>
             /\ \A k \in 1..Len(parsed.entries) : IsEvent(parsed.entries[k])
             /\ parsed.entries = <<>> <=>
                  Elems(parsed.body) \cap (PauseMarkers \cup ResumeMarkers) = {}

\* lazylog-parser was handed text with a marker in it and no delimiter
C16_Witness ==
    /\ parsed.op = "process_delta"
    /\ NoDelimiter(parsed.body)
    /\ Elems(parsed.body) \cap PauseMarkers # {}
    /\ parsed.entries = <<>>

\* r reads [origin] LEVEL ## [tag] msg with a level of letters from L, and
\* Q holds of the four pieces
HeaderShape(r, L, Q(_, _, _, _)) ==
    \E c1 \in 3..Len(r) :
       /\ r[1] = "[" /\ r[c1] = "]"
       /\ \A j \in 2..(c1 - 1) : r[j] \notin ClosesBracket
       /\ \E a \in (c1 + 1)..Len(r) :
            /\ \A j \in (c1 + 1)..(a - 1) : r[j] \in Whitespace
            /\ \E b \in a..Len(r) :
                 /\ \A j \in a..b : r[j] \in L
                 /\ \E h \in (b + 1)..(Len(r) - 1) :
                      /\ \A j \in (b + 1)..(h - 1) : r[j] \in Whitespace
                      /\ r[h] = "#" /\ r[h + 1] = "#"
                      /\ \E o \in (h + 2)..Len(r) :
                           /\ \A j \in (h + 2)..(o - 1) : r[j] \in Whitespace
                           /\ r[o] = "["
                           /\ \E c2 \in (o + 2)..Len(r) :
                                /\ \A j \in (o + 1)..(c2 - 1) : r[j] \notin ClosesBracket
                                /\ r[c2] = "]"
                                /\ Q(SubSeq(r, 2, c1 - 1), SubSeq(r, a, b),
                                     SubSeq(r, o + 1, c2 - 1),
                                     SubSeq(r, c2 + 1, Len(r)))

AnyPieces(origin, level, tag, msg) == TRUE

\* the entry carries the trimmed pieces of the header
CarriesHeader(entry, origin, level, tag, msg) ==
    /\ entry.content = Trim(msg)
    /\ GetMetadata(entry, "level") = Trim(level)
    /\ GetMetadata(entry, "origin") = Trim(origin)
    /\ GetMetadata(entry, "tag") = Trim(tag)

ReassembledEntries ==
    IF parsed.op = "process_delta" THEN parsed.entries
    ELSE IF parsed.op \in {"AndroidEffectParser", "IosEffectParser"} THEN parsed.result
    ELSE <<>>

\* C18: no entry of the reassembler has a level, origin or tag key with an
\* empty value: a piece that is unmatched or empty after trimming has no
\* key at all.
C18_KeyPresentMeansField ==
    \A k \in 1..Len(ReassembledEntries) :
        /\ \A kv \in ReassembledEntries[k].metadata :
              kv[1] \in {"level", "origin", "tag"} /\ kv[2] # <<>>
        /\ \A kv1, kv2 \in ReassembledEntries[k].metadata : kv1[1] = kv2[1] => kv1 = kv2

\* a header matched whose origin and tag are blank: only level has a key
C18_Witness ==
    /\ parsed.op = "process_delta"
    /\ Len(parsed.entries) >= 1
    /\ HeaderShape(parsed.entries[1].raw_content, {"U"}, AnyPieces)
    /\ HasMetadata(parsed.entries[1], "level")
    /\ ~HasMetadata(parsed.entries[1], "origin")
    /\ ~HasMetadata(parsed.entries[1], "tag")

\* C19: for every decoder and every raw string parse returns an entry for,
\* the entry's raw_content is the raw string passed to parse.
C19_RawPreservation ==
    (parsed.op \in Decoders /\ parsed.result # <<>>)
        => parsed.result[1].raw_content = parsed.input

\* C20: AndroidEffectParser.parse on a raw log tagged [Effect] whose body is
\* ## <timestamp> [origin] <level> ## [tag] message returns an entry whose
\* level, origin and tag are the pieces of the header and whose content is
\* the trimmed message, also when the level is written in lower case.
C20_LowercaseLevel ==
    (/\ parsed.op = "AndroidEffectParser"
     /\ Len(parsed.input) > 3
     /\ SubSeq(parsed.input, 1, 3) = <<"AE", "\n", "D">>
     /\ NoDelimiter(SubSeq(parsed.input, 4, Len(parsed.input)))
     /\ HeaderShape(Trim(SubSeq(parsed.input, 4, Len(parsed.input))),
                    {"U", "l"}, AnyPieces))
        => /\ parsed.result # <<>>
           /\ LET carries(origin, level, tag, msg) ==
                      CarriesHeader(parsed.result[1], origin, level, tag, msg)
              IN  HeaderShape(Trim(SubSeq(parsed.input, 4, Len(parsed.input))),
                              {"U", "l"}, carries)

----------------------------------------------------------------------------
(* Claims about overflow as the crate documentation states it *)

\* the last n elements of s
LastN(s, n) == SubSeq(s, Len(s) - n + 1, Len(s))

\* C21: when the ring buffer is full and a new log arrives, old buffered
\* logs are discarded to make room, so the buffer always holds the most
\* recent logs: its contents are the latest items the provider thread has
\* pushed, and a push on a full buffer puts the incoming item in.
C21_EvictOldest ==
    (pc # "push" => ring = LastN(produced, Len(ring)))


----------------------------------------------------------------------------
(* Claims about the detail-level functions *)

\* C22: for every level and max in 0..255, increment_detail_level(level,
\* max) is min(level + 1, max) computed on the integers, so level 255 does
\* not wrap to 0, and decrement_detail_level(level) is level - 1 for
\* level > 0 and 0 for level 0; both results are again u8 values.
C22_DetailLevelStepping ==
    /\ parsed.op = "increment_detail_level" =>
          /\ parsed.result = Min(parsed.level + 1, parsed.max)
          /\ parsed.result \in LogDetailLevel
    /\ parsed.op = "decrement_detail_level" =>
          /\ parsed.level > 0 => parsed.result = parsed.level - 1
          /\ parsed.level = 0 => parsed.result = 0
          /\ parsed.result \in LogDetailLevel

\* increment_detail_level was called at the top of the u8 range with a
\* maximum that does not clamp
C22_Witness ==
    /\ parsed.op = "increment_detail_level"
    /\ parsed.level = U8Max
    /\ parsed.max = U8Max
    /\ parsed.result = U8Max

----------------------------------------------------------------------------
(* Claims about content_into_lines *)

\* the consecutive chunks of n chars of s, the last one possibly shorter
RECURSIVE ChunksOf(_, _)
ChunksOf(s, n) ==
    IF Len(s) <= n THEN <<s>> ELSE <<SubSeq(s, 1, n)>> \o ChunksOf(SubSeq(s, n + 1, Len(s)), n)

\* the pieces of s between its newlines: one more than it has newlines
RECURSIVE Segments(_)
Segments(s) ==
    LET nl == IndexFrom(s, 1, {"\n"})
    IN  IF nl > Len(s) THEN <<s>>
        ELSE <<SubSeq(s, 1, nl - 1)>> \o Segments(SubSeq(s, nl + 1, Len(s)))

\* the segment of s that holds char i, counted from 1
SegmentAt(s, i) == Cardinality({j \in 1..(i - 1) : s[j] = "\n"}) + 1

WithoutNewlines(s) == SelectSeq(s, LAMBDA ch : ch # "\n")

\* every segment cut into chunks of width chars, an empty segment giving
\* one empty line
RECURSIVE ChunkedSegments(_, _)
ChunkedSegments(segs, width) ==
    IF segs = <<>> THEN <<>>
    ELSE ChunksOf(segs[1], width) \o ChunkedSegments(Tail(segs), width)

\* the lines the chunking rule allows for a content: the chunks of all its
\* segments, where an empty segment behind the last newline may or may
\* not stand as a line
IsChunkingOf(lines, content, width) ==
    LET segs == Segments(content)
    IN  \/ lines = ChunkedSegments(segs, width)
        \/ /\ segs[Len(segs)] = <<>>
           /\ lines = ChunkedSegments(SubSeq(segs, 1, Len(segs) - 1), width)

\* C23: for width > 0 wrap_content_to_lines cuts each newline-separated
\* segment of the content into consecutive chunks of exactly width chars,
\* the last one possibly shorter: no line is longer than width chars, an
\* empty line stands only for an empty segment, and the lines put together
\* are the content without its newlines; for width 0 there are no lines.
C23_Wrapping ==
    (parsed.op = "content_into_lines" /\ parsed.mode = "Wrapped") =>
        IF parsed.width = 0 THEN parsed.lines = <<>>
        ELSE /\ IsChunkingOf(parsed.lines, parsed.sanitized, parsed.width)
             /\ \A k \in 1..Len(parsed.lines) : Len(parsed.lines[k]) <= parsed.width
             /\ Flatten(parsed.lines) = WithoutNewlines(parsed.sanitized)
             /\ Cardinality({k \in 1..Len(parsed.lines) : parsed.lines[k] = <<>>})
                  <= Cardinality({k \in 1..Len(Segments(parsed.sanitized)) :
                                     Segments(parsed.sanitized)[k] = <<>>})

\* the first line of a content: the text before its first newline
FirstLine(content) == SubSeq(content, 1, IndexFrom(content, 1, {"\n"}) - 1)

\* C24: content_into_lines in Truncated mode returns exactly one line of
\* at most width chars: the first line of the content unchanged when it
\* fits, otherwise its first width - 2 chars followed by "..", and the
\* empty line for width 0.
C24_Truncation ==
    (parsed.op = "content_into_lines" /\ parsed.mode = "Truncated") =>
        /\ Len(parsed.lines) = 1
        /\ Len(parsed.lines[1]) <= parsed.width
        /\ parsed.width = 0 => parsed.lines[1] = <<>>
        /\ (parsed.width > 0 /\ Len(FirstLine(parsed.sanitized)) <= parsed.width) =>
              parsed.lines[1] = FirstLine(parsed.sanitized)
        /\ (parsed.width >= 2 /\ Len(FirstLine(parsed.sanitized)) > parsed.width) =>
              parsed.lines[1] =
                  SubSeq(FirstLine(parsed.sanitized), 1, parsed.width - 2) \o <<".", ".">>

----------------------------------------------------------------------------
(* Claims about the search space and the arrival path of the FilterEngine *)

\* a step in which apply_filter called filter with a non-empty query
FilterCallStep ==
    /\ hist' # <<>>
    /\ hist'[1].op = "filter"
    /\ raw_logs' = raw_logs
    /\ detail_level' = detail_level
    /\ GetFilterQuery(filter_input') # <<>>

\* C25: filter with a non-empty query evaluates the cached result list
\* when the cached query is non-empty, the new query starts with it and
\* the cached result is non-empty, and the full range 0..len(entries) in
\* every other case, an empty cached result included; after the call the
\* cache holds the new query and the returned list.
C25_SearchSpaceStep ==
    FilterCallStep =>
        LET query == GetFilterQuery(filter_input')
        IN  /\ hist'[1].query = query
            /\ hist'[1].space =
                  IF /\ previous_query # <<>>
                     /\ StartsWith(query, previous_query)
                     /\ previous_results # <<>>
                  THEN previous_results
                  ELSE Range(Len(raw_logs))
            /\ previous_query' = query
            /\ previous_results' = hist'[1].result
            /\ displaying_logs' = hist'[1].result

C25_SearchSpaceRule == [][C25_SearchSpaceStep]_vars

\* filter was called with an extension of the cached query while the
\* cached result was empty, and scanned all entries
C25_Witness ==
    /\ Len(hist) = 2
    /\ hist[2].op = "filter"
    /\ hist[2].query # <<>>
    /\ hist[2].result = <<>>
    /\ hist[1].op = "filter"
    /\ hist[1].len = hist[2].len
    /\ hist[1].len >= 2
    /\ hist[1].query # hist[2].query
    /\ StartsWith(hist[1].query, hist[2].query)
    /\ hist[1].space = Range(hist[1].len)

\* a step in which filter_new_logs was called on a list that has grown
\* with a query that is not the cached one
ChangedQueryOnArrival ==
    /\ Len(raw_logs') > Len(raw_logs)
    /\ hist' # <<>>
    /\ hist'[1].op = "filter_new_logs"
    /\ hist'[1].query # previous_query

\* C26: filter_new_logs called with a query different from the cached
\* query, on an entry list that has grown since the cache was written,
\* returns what a full scan of the whole extended list gives for the new
\* query: new entries that match are included also when the new query
\* extends the cached one.
C26_ChangedQueryStep ==
    ChangedQueryOnArrival =>
        hist'[1].result = FilterSequential(raw_logs', Range(Len(raw_logs')),
                                           ToLowercase(hist'[1].query), detail_level)

C26_ChangedQueryOnArrival == [][C26_ChangedQueryStep]_vars

----------------------------------------------------------------------------
(* Claims about the parallel threshold *)

\* the latest FilterEngine call evaluated a candidate set
Evaluated == hist # <<>> /\ hist[1].path # "none"

\* the part of the latest result that came from evaluating the candidates:
\* filter_new_logs puts the cached indices, all below old_count, in front
EvaluatedPart ==
    IF hist[1].via = "new"
    THEN SelectSeq(hist[1].result, LAMBDA idx : idx >= hist[1].old_count)
    ELSE hist[1].result

\* both paths give the recorded list on the recorded candidates
SameOnEitherPath ==
    /\ EvaluatedPart = FilterSequential(raw_logs, hist[1].space,
                                        ToLowercase(hist[1].query), hist[1].d)
    /\ EvaluatedPart = FilterParallel(raw_logs, hist[1].space,
                                      ToLowercase(hist[1].query), hist[1].d)

\* C27 as stated: fewer than 1000 candidates are evaluated sequentially,
\* 1000 or more on the worker pool, in filter and in filter_new_logs, and
\* the returned list is the same on either path.
C27_ParallelFromThreshold ==
    Evaluated =>
        /\ Len(hist[1].space) < ParallelThreshold => hist[1].path = "sequential"
        /\ Len(hist[1].space) >= ParallelThreshold => hist[1].path = "parallel"
        /\ SameOnEitherPath

\* C27: a candidate set of at most 1000 indices is evaluated sequentially
\* and one of more than 1000 indices on the worker pool, in filter and in
\* filter_new_logs alike, and the returned list is the same on either
\* path.
C27_ParallelAboveThreshold ==
    Evaluated =>
        /\ Len(hist[1].space) <= ParallelThreshold => hist[1].path = "sequential"
        /\ Len(hist[1].space) > ParallelThreshold => hist[1].path = "parallel"
        /\ SameOnEitherPath

\* filter_new_logs evaluated exactly 1000 new entries, sequentially, and
\* some of them matched
C27_Witness ==
    /\ Evaluated
    /\ hist[1].op = "filter_new_logs"
    /\ hist[1].via = "new"
    /\ Len(hist[1].space) = ParallelThreshold
    /\ hist[1].path = "sequential"
    /\ hist[1].result # <<>>
    /\ Len(hist[1].result) < ParallelThreshold

----------------------------------------------------------------------------
(* Claims about the viewer *)

\* the stateless full scan: the indices whose lower-cased searchable text
\* at detail level d contains the lower-cased query, ascending, and all
\* indices for the empty query
FullScan(logs, query, d) ==
    IF query = <<>> THEN Range(Len(logs))
    ELSE SelectSeq(Range(Len(logs)),
             LAMBDA idx : Contains(ToLowercase(SearchableText(logs[idx + 1], d)),
                                   ToLowercase(query)))

\* C28: after any sequence of viewer events (typing or deleting a filter
\* character, Esc or Enter in the filter, "/", arrival batches, clear
\* logs, detail level up and down, a start with an initial filter) the
\* displayed index list is the stateless full scan of the accumulated
\* logs for the current query at the current detail level.
C28_ViewerFilterConsistency ==
    displaying_logs = FullScan(raw_logs, GetFilterQuery(filter_input), detail_level)

\* a step in which filter_new_logs was called with the cached query and
\* no new entries, right after filter had answered that query on the same
\* entries
NoNewEntriesAfterFilter ==
    /\ hist # <<>>
    /\ hist[1].op \in {"filter", "reset+filter"}
    /\ hist[1].query = previous_query
    /\ hist[1].len = Len(raw_logs)
    /\ hist[1].d = detail_level
    /\ Len(hist') = 2
    /\ hist'[1].op = "filter_new_logs"
    /\ hist'[1].query = previous_query
    /\ hist'[1].old_count = Len(raw_logs)
    /\ raw_logs' = raw_logs

\* C29: filter_new_logs called with the cached query and a previous count
\* equal to len(entries) leaves the cache as it was and returns the index
\* list that filter returned for that query on those entries, for a
\* non-empty query and for the empty query alike.
C29_NoNewEntriesStep ==
    NoNewEntriesAfterFilter =>
        /\ previous_query' = previous_query
        /\ previous_results' = previous_results
        /\ hist'[1].result = hist[1].result

C29_NoNewEntries == [][C29_NoNewEntriesStep]_vars

----------------------------------------------------------------------------
(* Claims about the calls the provider thread makes *)

\* the provider thread is inside an iteration of the loop body
InIteration == pc \in {"poll", "iter", "push", "sleep"}

\* a call of start / poll_logs / stop is made in this step
StartStep == pc = "start" /\ pc' # "start"

PollStep == pc = "poll" /\ pc' # "poll"

StopStep == pc = "stopping" /\ pc' # "stopping"

\* the order of the calls: the first call is start, poll_logs and stop
\* need a start that succeeded, and nothing follows stop
C30_CallOrderStep ==
    /\ StartStep => (calls.start = 0 /\ calls.poll = 0 /\ calls.stop = 0)
    /\ PollStep => (start_result = "ok" /\ calls.start = 1 /\ calls.stop = 0)
    /\ StopStep => (start_result = "ok" /\ calls.start = 1 /\ calls.stop = 0
                    /\ pc' = "done")
    /\ pc = "done" => pc' = "done"

\* the stop flag decides at the loop head and nowhere else: the body of an
\* iteration runs to its sleep whatever the flag says, and the thread
\* leaves the loop only from the loop head with the flag set
C30_FlagReadAtTopStep ==
    /\ (InIteration /\ pc' # pc) => pc' \in {"iter", "push", "sleep", "loop"}
    /\ (pc = "loop" /\ pc' # pc) => pc' = (IF should_stop THEN "stopping" ELSE "poll")
    /\ (pc' = "poll" /\ pc # "poll") => (pc = "loop" /\ ~should_stop)
    /\ (pc' = "stopping" /\ pc # "stopping") => (pc = "loop" /\ should_stop)

\* C30: the Source calls are start, then zero or more poll_logs, then
\* stop; no poll_logs or stop comes before start has succeeded and no
\* poll_logs after stop; the stop flag is read once, at the top of each
\* iteration; and at most one poll_logs call begins after the stop flag
\* is set.
C30_CallProtocol ==
    /\ [][C30_CallOrderStep /\ C30_FlagReadAtTopStep]_vars
    /\ [](calls.poll_after_flag <= 1)
    /\ []((calls.poll > 0 \/ calls.stop > 0) => start_result = "ok")

\* the flag was set between the loop head and poll_logs: one more
\* poll_logs began, delivered, and the thread went on to stop
C30_Witness ==
    /\ calls.poll_after_flag = 1
    /\ calls.poll >= 2
    /\ calls.stop = 1
    /\ pc = "done"
    /\ produced # <<>>

----------------------------------------------------------------------------
(* Claims about a hand-off that never finds the ring buffer full *)

\* the raw strings the for loop has taken out of the polled batches so far
RawConsumed == MaxRaw - src_left - Len(raw_batch)

\* the item parse has just returned and the thread is about to push
InHand == IF pc = "push" THEN pending ELSE <<>>

\* the step of the for loop over a raw string the parser returns None for
ParseNoneStep ==
    /\ pc = "iter"
    /\ raw_batch # <<>>
    /\ ~ParserAccepts(Head(raw_batch))
    /\ pc' # pc \/ raw_batch' # raw_batch

C31_ParseNoneStep ==
    ParseNoneStep =>
        /\ pc' = "iter"
        /\ raw_batch' = Tail(raw_batch)
        /\ produced' = produced
        /\ ring' = ring
        /\ dropped' = dropped
        /\ last_poll' = last_poll

\* as long as no push has found the buffer full, what the foreground holds,
\* what is queued and what is in hand make up the parse results in order
C31_NothingLost ==
    dropped = <<>> =>
        /\ Delivered \o ring \o InHand = produced
        /\ Ids(produced) = [i \in 1..Len(produced) |-> i]
        /\ Len(produced) <= RawConsumed
        /\ (ring = <<>> /\ InHand = <<>>) => Delivered = produced

\* C31: in a run in which no push attempt finds the queue full, the
\* entries delivered to the foreground are, once the queue is drained,
\* exactly the non-empty parse results in the order the raw strings came
\* from the polls; a raw string parse returns nothing for adds no entry,
\* raises no error and does not end the loop.
C31_LosslessWhenNotFull == [][C31_ParseNoneStep]_vars /\ []C31_NothingLost

\* three entries from two polls were delivered and the queue is drained,
\* nothing was dropped, and the parser returned None for one raw string
C31_Witness ==
    /\ dropped = <<>>
    /\ ring = <<>>
    /\ InHand = <<>>
    /\ Ids(raw_logs) = <<1, 2, 3>>
    /\ calls.poll >= 2
    /\ RawConsumed = 4

----------------------------------------------------------------------------
(* Claims about the selection of the viewer *)

\* the id of the entry displayed at position pos (0-based)
DisplayedId(indices, logs, pos) == logs[indices[pos + 1] + 1].id

\* the entry with the id is in the displayed list
IsDisplayed(indices, logs, id) ==
    \E p \in 1..Len(indices) : logs[indices[p] + 1].id = id

\* a viewer event that rebuilt the displayed list or changed what it is
\* built from: arrivals, a filter key, a detail level key, clear
ListRebuiltStep ==
    <<raw_logs, displaying_logs, filter_input, detail_level, filter_focused>>' #
        <<raw_logs, displaying_logs, filter_input, detail_level, filter_focused>>

C32_SelectionFollowsStep ==
    (ListRebuiltStep /\ selected # <<>> /\ selected_log_uuid # <<>>) =>
        IF IsDisplayed(displaying_logs', raw_logs', selected_log_uuid[1])
        THEN /\ selected' # <<>>
             /\ selected'[1] < Len(displaying_logs')
             /\ DisplayedId(displaying_logs', raw_logs', selected'[1]) =
                    selected_log_uuid[1]
             /\ selected_log_uuid' = selected_log_uuid
        ELSE /\ selected' = <<>>
             /\ selected_log_uuid' = <<>>

DisplayedIndicesValid ==
    \A p \in 1..Len(displaying_logs) : displaying_logs[p] < Len(raw_logs)

\* the selected position, if there is one, is a position of the displayed list
SelectedPositionValid ==
    selected # <<>> => selected[1] < Len(displaying_logs)

C33_WitnessEmptied ==
    /\ raw_logs # <<>>
    /\ displaying_logs = <<>>
    /\ selected = <<>>
    /\ GetFilterQuery(filter_input) # <<>>

\* C34: in every reachable state of the viewer, from construction on and
\* after any number of detail level keys, the detail level lies in
\* 0..max_detail_level() of the parser the viewer was built with, also for a
\* parser whose maximum is 0.
C34_DetailLevelRange ==
    detail_level \in 0..parser_max_detail_level

----------------------------------------------------------------------------
(* Claims about the providers' decoders and buffers *)

\* the positions of the line that hold a backslash
BackslashesOf(line) == {k \in 0..(Len(line) - 1) : ByteAt(line, k) = BACKSLASH}

\* every backslash of the line lies in its last three bytes
BackslashesOnlyAtEnd(line) ==
    \A k \in BackslashesOf(line) : k + 3 >= Len(line)

\* C35: decode_syslog returns on every line without reading past the end
\* of the input and without an unsigned underflow, in particular on lines
\* shorter than 4 bytes that contain a backslash; a backslash within the
\* last three bytes is copied unchanged, and a line without a backslash is
\* returned unchanged.
C35_SyslogDecodingBounds ==
    parsed.op = "decode_syslog" =>
        /\ parsed.result.panic = "none"
        /\ BackslashesOnlyAtEnd(parsed.line) => parsed.result.text = parsed.line

\* a call of poll_logs
DyehPollStep == dyeh'.poll.n # dyeh.poll.n

\* the poll found the file it reads at its path and read its metadata
PollSawFile == dyeh'.poll.saw # <<>>

\* the offset the poll has to read from: 0 after a switch to another file
\* and when the file is shorter than last_len, last_len otherwise
RestartOrResume ==
    IF dyeh'.log_file_path # dyeh.log_file_path THEN 0
    ELSE IF dyeh'.poll.saw[1] < dyeh.last_len THEN 0
    ELSE dyeh.last_len

C36_TailStep ==
    (DyehPollStep /\ PollSawFile) =>
        /\ dyeh'.poll.from = RestartOrResume
        /\ dyeh'.poll.saw[1] > RestartOrResume =>
              /\ dyeh'.poll.read = <<RestartOrResume, dyeh'.poll.saw[1]>>
              /\ dyeh'.last_len = dyeh'.poll.saw[1]
        /\ dyeh'.last_len <= dyeh'.files[dyeh'.log_file_path].len
        /\ ~dyeh'.twice
        /\ dyeh'.returned = 0..(dyeh'.last_len - 1)

\* C36: over successive poll_logs calls on one file, a poll that sees the
\* file grown reads exactly the bytes [last_len, length) and sets last_len
\* to the length, so that the ranges read are contiguous and disjoint; after
\* a poll last_len does not exceed the length of the file; a file shorter
\* than last_len, and a switch to another file, restart the reading at 0.
C36_FileTailOffsets == [][C36_TailStep]_vars

\* poll_logs returns
PollReturnStep == android.main = "poll_locked" /\ android'.main = "started"

\* a poll returns the whole buffer in order and leaves it empty
C37_DrainStep ==
    PollReturnStep =>
        /\ android'.polled = android.polled \o android.log_buffer
        /\ android'.log_buffer = <<>>

\* the lines pushed so far are the lines returned so far followed by the
\* lines in the buffer
C37_EveryLineOnce ==
    android.appended = android.polled \o android.log_buffer

\* a poll that holds the buffer returns, whatever the buffer holds
C37_PollReturns ==
    android.main = "poll_locked" => ENABLED (UNCHANGED androidOtherVars /\ PollDrain)

\* C37: with the reader thread pushing lines and the owner thread calling
\* poll_logs concurrently, every pushed line is returned by exactly one
\* poll and the lines are returned in the order they were pushed; poll_logs
\* returns what the buffer holds and never waits for a line to arrive.
C37_BufferDrain ==
    /\ [](C37_EveryLineOnce /\ C37_PollReturns)
    /\ [][C37_DrainStep]_vars

\* two polls returned a line each, and an empty poll is about to return
C37_Witness ==
    /\ android.polls = 2
    /\ android.polled = <<1, 2>>
    /\ android.main = "poll_locked"
    /\ android.log_buffer = <<>>

\* stop() has begun
StopCalled == android.main \in {"stop_flag", "stop_child", "stop_kill", "join", "stopped"}

\* stop() has returned, the reader thread has returned, no adb is running
StoppedClean ==
    /\ android.main = "stopped"
    /\ android.reader = "done"
    /\ \A k \in 1..Len(android.children) : android.children[k] # "running"

\* C38: after stop() following start(), whatever the reader thread is doing
\* (waiting to retry, between spawning a child and registering it,
\* streaming), the reader sees the flag and returns, every child it spawned
\* is killed or gone, and the join of stop() returns: no wait on the
\* buffer, flag or child mutex lasts forever.
C38_StopTerminates == StopCalled ~> StoppedClean

\* stop() was called between the spawn and the registration of a child,
\* and has returned with that child killed
C38_Witness ==
    /\ StoppedClean
    /\ android.stop_phase \in {"settle", "try_wait", "register", "register_locked"}
    /\ \E k \in 1..Len(android.children) : android.children[k] = "killed"

\* stop() was called while the reader waited to retry, and has returned
C38_WitnessRetry ==
    /\ StoppedClean
    /\ android.stop_phase = "retry_sleep"

\* stop() was called while the reader streamed, and has returned
C38_WitnessStreaming ==
    /\ StoppedClean
    /\ android.stop_phase \in {"stream_top", "stream_locked", "next_line", "push",
                               "push_locked"}
    /\ \E k \in 1..Len(android.children) : android.children[k] = "killed"

============================================================================
